---- MODULE Spec2Model ----
(***************************************************************************)
(* x402 client payment flow of v402-web-ts: handleEvmPayment               *)
(* (src/src/services/evm/payment-handler.ts), handleSvmPayment             *)
(* (src/unnamed/part_005), the header builders they call and the error     *)
(* classifier (src/unnamed/part_003).                                      *)
(*                                                                         *)
(* JavaScript strings are TLA+ strings; String.prototype.includes,         *)
(* toLowerCase, parseInt(s, 16), Number.prototype.toString(16) and the     *)
(* template literals are computed character by character.  A bigint is its *)
(* canonical decimal numeral, so that amounts beyond 2^53 are compared     *)
(* exactly.  An optional value (a property that may be undefined) is the   *)
(* empty set or a singleton.                                               *)
(*                                                                         *)
(* Also modelled: retryWithBackoff (src/src/utils/helpers.ts) and the      *)
(* wallet store (src/src/react/store/walletStore.ts) with the wallet       *)
(* utilities it calls (src/unnamed/part_000, src/unnamed/part_001).        *)
(*                                                                         *)
(* Record constructors list their fields in the order in which TLC keeps   *)
(* them (the order in which the field names first occur in the module), so *)
(* that no record is reordered while several workers read it.              *)
(***************************************************************************)
EXTENDS Integers, Sequences, FiniteSets, TLC

\* ------------------------------------------------------------------------
\* Bounds of the model
\* ------------------------------------------------------------------------

\* Longest accepts list a 402 body carries.
MaxAccepts == 2

\* ------------------------------------------------------------------------
\* JavaScript values
\* ------------------------------------------------------------------------

None == {}
Some(v) == {v}
IsSome(o) == o # {}
The(o) == CHOOSE v \in o : TRUE

\* s.substring(i-1) for 1-based i
Tail1(s, i) == SubSeq(s, i, Len(s))

\* String.prototype.includes
Includes(s, p) ==
    \E i \in 1..(Len(s) - Len(p) + 1) : SubSeq(s, i, i + Len(p) - 1) = p

\* 1-based position of the one-character string c in alphabet, 0 when absent
IndexIn(alphabet, c) ==
    IF \E i \in 1..Len(alphabet) : SubSeq(alphabet, i, i) = c
    THEN CHOOSE i \in 1..Len(alphabet) : SubSeq(alphabet, i, i) = c
    ELSE 0

UpperLetters == "ABCDEFGHIJKLMNOPQRSTUVWXYZ"
LowerLetters == "abcdefghijklmnopqrstuvwxyz"
DecDigits == "0123456789"
HexDigits == "0123456789abcdef"
HexDigitsUpper == "0123456789ABCDEF"

LowerChar(c) ==
    LET k == IndexIn(UpperLetters, c)
    IN IF k = 0 THEN c ELSE SubSeq(LowerLetters, k, k)

\* String.prototype.toLowerCase (ASCII)
RECURSIVE ToLowerCase(_)
ToLowerCase(s) ==
    IF Len(s) = 0 THEN ""
    ELSE LowerChar(SubSeq(s, 1, 1)) \o ToLowerCase(Tail1(s, 2))

\* Number.prototype.toString(radix) for a non-negative integer, radix 10 or 16
RECURSIVE NumToString(_, _)
NumToString(n, radix) ==
    LET digits == IF radix = 16 THEN HexDigits ELSE DecDigits
        d == SubSeq(digits, (n % radix) + 1, (n % radix) + 1)
    IN IF n < radix THEN d ELSE NumToString(n \div radix, radix) \o d

\* The value NaN of parseInt (no chain id is negative)
NaN == 0 - 1

HexValue(c) ==
    IF IndexIn(HexDigits, c) # 0 THEN IndexIn(HexDigits, c) - 1
    ELSE IF IndexIn(HexDigitsUpper, c) # 0 THEN IndexIn(HexDigitsUpper, c) - 1
    ELSE NaN

\* value of the longest prefix of s made of hex digits, acc the value so far
RECURSIVE HexPrefixValue(_, _, _)
HexPrefixValue(s, acc, seen) ==
    IF Len(s) = 0 \/ HexValue(SubSeq(s, 1, 1)) = NaN
    THEN (IF seen THEN acc ELSE NaN)
    ELSE HexPrefixValue(Tail1(s, 2), acc * 16 + HexValue(SubSeq(s, 1, 1)), TRUE)

\* parseInt(s, 16): an optional 0x / 0X prefix, then hex digits; NaN when
\* no digit follows
ParseInt16(s) ==
    IF Len(s) >= 2 /\ SubSeq(s, 1, 2) \in {"0x", "0X"}
    THEN HexPrefixValue(Tail1(s, 3), 0, FALSE)
    ELSE HexPrefixValue(s, 0, FALSE)

\* truthiness of a number: 0 and NaN are falsy
TruthyNumber(n) == n # 0 /\ n # NaN

\* ------------------------------------------------------------------------
\* bigint
\* ------------------------------------------------------------------------

IsDecimalNumeral(s) ==
    \A i \in 1..Len(s) : IndexIn(DecDigits, SubSeq(s, i, i)) # 0

RECURSIVE StripLeadingZeros(_)
StripLeadingZeros(s) ==
    IF Len(s) > 1 /\ SubSeq(s, 1, 1) = "0" THEN StripLeadingZeros(Tail1(s, 2))
    ELSE s

\* BigInt(s) for a string s: the canonical numeral, or None for the
\* SyntaxError thrown on a string that is no integer ("" converts to 0n)
BigInt(s) ==
    IF ~IsDecimalNumeral(s) THEN None
    ELSE IF Len(s) = 0 THEN Some("0")
    ELSE Some(StripLeadingZeros(s))

\* a > b on canonical numerals of equal length: first differing digit decides
RECURSIVE NumeralGreater(_, _)
NumeralGreater(a, b) ==
    IF Len(a) = 0 THEN FALSE
    ELSE LET da == IndexIn(DecDigits, SubSeq(a, 1, 1))
             db == IndexIn(DecDigits, SubSeq(b, 1, 1))
         IN IF da # db THEN da > db
            ELSE NumeralGreater(Tail1(a, 2), Tail1(b, 2))

\* a > b on bigints (non-negative canonical numerals)
BigIntGreater(a, b) ==
    IF Len(a) # Len(b) THEN Len(a) > Len(b) ELSE NumeralGreater(a, b)

\* ------------------------------------------------------------------------
\* Error objects
\* ------------------------------------------------------------------------

\* error.code of a thrown value: undefined, a number or a string
NoCode == [type |-> "undefined", num |-> 0, str |-> ""]
CodeNum(n) == [type |-> "number", num |-> n, str |-> ""]
CodeStr(s) == [type |-> "string", num |-> 0, str |-> s]

\* new Error(message)
JsError(message) ==
    [message |-> message, name |-> "Error", code |-> NoCode, userMessage |-> ""]

\* an error object thrown by a wallet or provider, with a code
ProviderError(code, message) ==
    [message |-> message, name |-> "Error", code |-> code, userMessage |-> ""]

\* a thrown null / undefined
NullError ==
    [message |-> "", name |-> "null", code |-> NoCode, userMessage |-> ""]

\* a thrown object whose message is truthy and no string, as in
\* {code, message: 404}: messageType is the typeof of that message
ObjectError(code, messageType) ==
    [message |-> "", name |-> "Object", code |-> code, userMessage |-> "",
     messageType |-> messageType]

\* typeof errorMessage === 'string'
MessageIsString(error) == "messageType" \notin DOMAIN error

\* PaymentErrorCode
USER_REJECTED == "USER_REJECTED"
USER_CANCELLED == "USER_CANCELLED"
NETWORK_MISMATCH == "NETWORK_MISMATCH"
NETWORK_SWITCH_FAILED == "NETWORK_SWITCH_FAILED"
UNSUPPORTED_NETWORK == "UNSUPPORTED_NETWORK"
CHAIN_ID_MISMATCH == "CHAIN_ID_MISMATCH"
CHAIN_ID_UNAVAILABLE == "CHAIN_ID_UNAVAILABLE"
WALLET_NOT_CONNECTED == "WALLET_NOT_CONNECTED"
WALLET_LOCKED == "WALLET_LOCKED"
INSUFFICIENT_BALANCE == "INSUFFICIENT_BALANCE"
INVALID_PAYMENT_REQUIREMENTS == "INVALID_PAYMENT_REQUIREMENTS"
AMOUNT_EXCEEDED == "AMOUNT_EXCEEDED"
SIGNATURE_FAILED == "SIGNATURE_FAILED"
UNKNOWN_ERROR == "UNKNOWN_ERROR"

PaymentErrorCode ==
    { USER_REJECTED, USER_CANCELLED, NETWORK_MISMATCH, NETWORK_SWITCH_FAILED,
      UNSUPPORTED_NETWORK, CHAIN_ID_MISMATCH, CHAIN_ID_UNAVAILABLE,
      WALLET_NOT_CONNECTED, WALLET_LOCKED, INSUFFICIENT_BALANCE,
      INVALID_PAYMENT_REQUIREMENTS, AMOUNT_EXCEEDED, SIGNATURE_FAILED,
      UNKNOWN_ERROR }

\* smallest i >= from where p occurs in s, 0 when there is none
IndexOfFrom(s, p, from) ==
    LET hits == { i \in from..(Len(s) - Len(p) + 1) :
                      SubSeq(s, i, i + Len(p) - 1) = p }
    IN IF hits = {} THEN 0 ELSE CHOOSE i \in hits : \A j \in hits : i <= j

IsDigitAt(s, i) ==
    i >= 1 /\ i <= Len(s) /\ IndexIn(DecDigits, SubSeq(s, i, i)) # 0

\* the position after the longest run of digits that starts at i
RECURSIVE DigitsEnd(_, _)
DigitsEnd(s, i) == IF IsDigitAt(s, i) THEN DigitsEnd(s, i + 1) ELSE i

\* a failed search
NoMatch == [digits |-> "", at |-> 0, next |-> 0]

\* first "(\d+)" at or after from: [at, digits, next], at = 0 when none
QuotedNumberFrom(s, from) ==
    LET hits == { i \in from..Len(s) :
                      /\ SubSeq(s, i, i) = "\""
                      /\ IsDigitAt(s, i + 1)
                      /\ DigitsEnd(s, i + 1) <= Len(s)
                      /\ SubSeq(s, DigitsEnd(s, i + 1), DigitsEnd(s, i + 1)) = "\"" }
    IN IF hits = {} THEN NoMatch
       ELSE LET i == CHOOSE i \in hits : \A j \in hits : i <= j
            IN [digits |-> SubSeq(s, i + 1, DigitsEnd(s, i + 1) - 1), at |-> i,
                next |-> DigitsEnd(s, i + 1) + 1]

\* first word followed by (\d+) at or after from, word in lower case, s
\* matched ignoring case: [at, digits, next], at = 0 when none
WordNumberFrom(s, word, from) ==
    LET low == ToLowerCase(s)
        hits == { i \in from..(Len(s) - Len(word) + 1) :
                      /\ SubSeq(low, i, i + Len(word) - 1) = word
                      /\ IsDigitAt(s, i + Len(word)) }
    IN IF hits = {} THEN NoMatch
       ELSE LET i == CHOOSE i \in hits : \A j \in hits : i <= j
            IN [digits |-> SubSeq(s, i + Len(word), DigitsEnd(s, i + Len(word)) - 1),
                at |-> i,
                next |-> DigitsEnd(s, i + Len(word))]

\* the two captured groups once both numbers are found
CapturedGroups(first, second) ==
    IF second.at # 0 THEN Some(<<first.digits, second.digits>>) ELSE None

\* "(\d+)" after the word of length len found at position at
QuotedAfter(s, at, len) ==
    IF at = 0 THEN NoMatch ELSE QuotedNumberFrom(s, at + len)

\* .*?active.*?"(\d+)" after the first number q1
QuotedSecond(s, low, q1) ==
    CapturedGroups(q1,
        QuotedAfter(s, IF q1.at = 0 THEN 0 ELSE IndexOfFrom(low, "active", q1.next), 6))

\* errorMessage.match(/chainId.*?"(\d+)".*?active.*?"(\d+)"/i)
QuotedPair(s, low) ==
    QuotedSecond(s, low, QuotedAfter(s, IndexOfFrom(low, "chainid", 1), 7))

\* .*?chain (\d+) after the first number w1
WordSecond(s, w1) ==
    CapturedGroups(w1,
        IF w1.at = 0 THEN NoMatch ELSE WordNumberFrom(s, "chain ", w1.next))

\* errorMessage.match(/chain (\d+).*?chain (\d+)/i)
WordPair(s) == WordSecond(s, WordNumberFrom(s, "chain ", 1))

\* a || b on match results
FirstMatch(a, b) == IF IsSome(a) THEN a ELSE b

\* errorMessage.match(/chainId.*?"(\d+)".*?active.*?"(\d+)"/i)
\*   || errorMessage.match(/chain (\d+).*?chain (\d+)/i):
\* None, or the two captured groups <<requestedChain, activeChain>>
ChainIdMatch(errorMessage) ==
    FirstMatch(QuotedPair(errorMessage, ToLowerCase(errorMessage)),
               WordPair(errorMessage))

\* error.message || error.toString()
ErrorMessageOf(error) ==
    IF error.message # "" THEN error.message
    ELSE IF error.name = "PaymentOperationError" THEN "PaymentOperationError"
    ELSE "Error"

\* the classifier with the wallet-locked rule tried before the
\* network-mismatch rule
parsePaymentErrorLockedFirst(error) ==
    LET errorMessage == ErrorMessageOf(error)
        errorCode == error.code
        has(p) == Includes(errorMessage, p)
    IN
    IF error = NullError THEN
        [message |-> "Unknown error occurred", code |-> UNKNOWN_ERROR,
         userMessage |-> "An unknown error occurred. Please try again."]
    ELSE IF \/ errorCode = CodeNum(4001)
            \/ errorCode = CodeStr("ACTION_REJECTED")
            \/ has("User rejected") \/ has("user rejected")
            \/ has("User denied") \/ has("user denied")
            \/ has("ethers-user-denied") THEN
        [message |-> "User rejected the transaction", code |-> USER_REJECTED,
         userMessage |-> "You rejected the signature request. Please try again if you want to proceed."]
    ELSE IF has("chainId") /\ (has("must match") \/ has("does not match")) THEN
        IF IsSome(ChainIdMatch(errorMessage)) THEN
            [message |-> "Network mismatch (wallet is on different chain): Requested "
                         \o The(ChainIdMatch(errorMessage))[1]
                         \o ", but wallet is on "
                         \o The(ChainIdMatch(errorMessage))[2],
             code |-> CHAIN_ID_MISMATCH,
             userMessage |-> "Your wallet is on the wrong network. Please switch to the correct network and try again."]
        ELSE
            [message |-> "Network mismatch (wallet selected network does not match)",
             code |-> CHAIN_ID_MISMATCH,
             userMessage |-> "Your wallet is on the wrong network. Please switch to the correct network."]
    ELSE IF has("locked") \/ has("Wallet is locked") THEN
        [message |-> "Wallet is locked", code |-> WALLET_LOCKED,
         userMessage |-> "Please unlock your wallet and try again."]
    ELSE IF has("Network mismatch") \/ has("Wrong network") \/ has("Incorrect network") THEN
        [message |-> errorMessage, code |-> NETWORK_MISMATCH,
         userMessage |-> "Please switch your wallet to the correct network."]
    ELSE IF has("insufficient") /\ (has("balance") \/ has("funds")) THEN
        [message |-> "Insufficient balance", code |-> INSUFFICIENT_BALANCE,
         userMessage |-> "You don't have enough balance to complete this payment."]
    ELSE IF has("Failed to switch") \/ has("switch chain") THEN
        [message |-> errorMessage, code |-> NETWORK_SWITCH_FAILED,
         userMessage |-> "Failed to switch network. Please switch manually in your wallet."]
    ELSE IF has("not connected") \/ has("No wallet") \/ has("Connect wallet") THEN
        [message |-> "Wallet not connected", code |-> WALLET_NOT_CONNECTED,
         userMessage |-> "Please connect your wallet first."]
    ELSE IF \/ has("No suitable") \/ has("payment requirements")
            \/ has("Missing payTo") \/ has("Missing asset") THEN
        [message |-> errorMessage, code |-> INVALID_PAYMENT_REQUIREMENTS,
         userMessage |-> "Invalid payment configuration. Please contact support."]
    ELSE IF has("exceeds maximum") THEN
        [message |-> errorMessage, code |-> AMOUNT_EXCEEDED,
         userMessage |-> "Payment amount exceeds the maximum allowed."]
    ELSE IF has("signature") \/ has("sign") \/ errorCode = CodeStr("UNKNOWN_ERROR") THEN
        [message |-> errorMessage, code |-> SIGNATURE_FAILED,
         userMessage |-> "Failed to sign the transaction. Please try again."]
    ELSE
        [message |-> errorMessage, code |-> UNKNOWN_ERROR,
         userMessage |-> "An unexpected error occurred. Please try again or contact support."]

\* the classifier whose default rule shows the raw message to the user
parsePaymentErrorEchoing(error) ==
    LET errorMessage == ErrorMessageOf(error)
        errorCode == error.code
        has(p) == Includes(errorMessage, p)
    IN
    IF error = NullError THEN
        [message |-> "Unknown error occurred", code |-> UNKNOWN_ERROR,
         userMessage |-> "An unknown error occurred. Please try again."]
    ELSE IF \/ errorCode = CodeNum(4001)
            \/ errorCode = CodeStr("ACTION_REJECTED")
            \/ has("User rejected") \/ has("user rejected")
            \/ has("User denied") \/ has("user denied")
            \/ has("ethers-user-denied") THEN
        [message |-> "User rejected the transaction", code |-> USER_REJECTED,
         userMessage |-> "You rejected the signature request. Please try again if you want to proceed."]
    ELSE IF has("chainId") /\ (has("must match") \/ has("does not match")) THEN
        IF IsSome(ChainIdMatch(errorMessage)) THEN
            [message |-> "Network mismatch (wallet is on different chain): Requested "
                         \o The(ChainIdMatch(errorMessage))[1]
                         \o ", but wallet is on "
                         \o The(ChainIdMatch(errorMessage))[2],
             code |-> CHAIN_ID_MISMATCH,
             userMessage |-> "Your wallet is on the wrong network. Please switch to the correct network and try again."]
        ELSE
            [message |-> "Network mismatch (wallet selected network does not match)",
             code |-> CHAIN_ID_MISMATCH,
             userMessage |-> "Your wallet is on the wrong network. Please switch to the correct network."]
    ELSE IF has("Network mismatch") \/ has("Wrong network") \/ has("Incorrect network") THEN
        [message |-> errorMessage, code |-> NETWORK_MISMATCH,
         userMessage |-> "Please switch your wallet to the correct network."]
    ELSE IF has("locked") \/ has("Wallet is locked") THEN
        [message |-> "Wallet is locked", code |-> WALLET_LOCKED,
         userMessage |-> "Please unlock your wallet and try again."]
    ELSE IF has("insufficient") /\ (has("balance") \/ has("funds")) THEN
        [message |-> "Insufficient balance", code |-> INSUFFICIENT_BALANCE,
         userMessage |-> "You don't have enough balance to complete this payment."]
    ELSE IF has("Failed to switch") \/ has("switch chain") THEN
        [message |-> errorMessage, code |-> NETWORK_SWITCH_FAILED,
         userMessage |-> "Failed to switch network. Please switch manually in your wallet."]
    ELSE IF has("not connected") \/ has("No wallet") \/ has("Connect wallet") THEN
        [message |-> "Wallet not connected", code |-> WALLET_NOT_CONNECTED,
         userMessage |-> "Please connect your wallet first."]
    ELSE IF \/ has("No suitable") \/ has("payment requirements")
            \/ has("Missing payTo") \/ has("Missing asset") THEN
        [message |-> errorMessage, code |-> INVALID_PAYMENT_REQUIREMENTS,
         userMessage |-> "Invalid payment configuration. Please contact support."]
    ELSE IF has("exceeds maximum") THEN
        [message |-> errorMessage, code |-> AMOUNT_EXCEEDED,
         userMessage |-> "Payment amount exceeds the maximum allowed."]
    ELSE IF has("signature") \/ has("sign") \/ errorCode = CodeStr("UNKNOWN_ERROR") THEN
        [message |-> errorMessage, code |-> SIGNATURE_FAILED,
         userMessage |-> "Failed to sign the transaction. Please try again."]
    ELSE
        [message |-> errorMessage, code |-> UNKNOWN_ERROR,
         userMessage |-> errorMessage]

\* the classifier whose network-mismatch rule replaces the raw message
parsePaymentErrorTerse(error) ==
    LET errorMessage == ErrorMessageOf(error)
        errorCode == error.code
        has(p) == Includes(errorMessage, p)
    IN
    IF error = NullError THEN
        [message |-> "Unknown error occurred", code |-> UNKNOWN_ERROR,
         userMessage |-> "An unknown error occurred. Please try again."]
    ELSE IF \/ errorCode = CodeNum(4001)
            \/ errorCode = CodeStr("ACTION_REJECTED")
            \/ has("User rejected") \/ has("user rejected")
            \/ has("User denied") \/ has("user denied")
            \/ has("ethers-user-denied") THEN
        [message |-> "User rejected the transaction", code |-> USER_REJECTED,
         userMessage |-> "You rejected the signature request. Please try again if you want to proceed."]
    ELSE IF has("chainId") /\ (has("must match") \/ has("does not match")) THEN
        IF IsSome(ChainIdMatch(errorMessage)) THEN
            [message |-> "Network mismatch (wallet is on different chain): Requested "
                         \o The(ChainIdMatch(errorMessage))[1]
                         \o ", but wallet is on "
                         \o The(ChainIdMatch(errorMessage))[2],
             code |-> CHAIN_ID_MISMATCH,
             userMessage |-> "Your wallet is on the wrong network. Please switch to the correct network and try again."]
        ELSE
            [message |-> "Network mismatch (wallet selected network does not match)",
             code |-> CHAIN_ID_MISMATCH,
             userMessage |-> "Your wallet is on the wrong network. Please switch to the correct network."]
    ELSE IF has("Network mismatch") \/ has("Wrong network") \/ has("Incorrect network") THEN
        [message |-> "Network mismatch", code |-> NETWORK_MISMATCH,
         userMessage |-> "Please switch your wallet to the correct network."]
    ELSE IF has("locked") \/ has("Wallet is locked") THEN
        [message |-> "Wallet is locked", code |-> WALLET_LOCKED,
         userMessage |-> "Please unlock your wallet and try again."]
    ELSE IF has("insufficient") /\ (has("balance") \/ has("funds")) THEN
        [message |-> "Insufficient balance", code |-> INSUFFICIENT_BALANCE,
         userMessage |-> "You don't have enough balance to complete this payment."]
    ELSE IF has("Failed to switch") \/ has("switch chain") THEN
        [message |-> errorMessage, code |-> NETWORK_SWITCH_FAILED,
         userMessage |-> "Failed to switch network. Please switch manually in your wallet."]
    ELSE IF has("not connected") \/ has("No wallet") \/ has("Connect wallet") THEN
        [message |-> "Wallet not connected", code |-> WALLET_NOT_CONNECTED,
         userMessage |-> "Please connect your wallet first."]
    ELSE IF \/ has("No suitable") \/ has("payment requirements")
            \/ has("Missing payTo") \/ has("Missing asset") THEN
        [message |-> errorMessage, code |-> INVALID_PAYMENT_REQUIREMENTS,
         userMessage |-> "Invalid payment configuration. Please contact support."]
    ELSE IF has("exceeds maximum") THEN
        [message |-> errorMessage, code |-> AMOUNT_EXCEEDED,
         userMessage |-> "Payment amount exceeds the maximum allowed."]
    ELSE IF has("signature") \/ has("sign") \/ errorCode = CodeStr("UNKNOWN_ERROR") THEN
        [message |-> errorMessage, code |-> SIGNATURE_FAILED,
         userMessage |-> "Failed to sign the transaction. Please try again."]
    ELSE
        [message |-> errorMessage, code |-> UNKNOWN_ERROR,
         userMessage |-> "An unexpected error occurred. Please try again or contact support."]

\* parsePaymentError: the PaymentError {code, message, userMessage}
parsePaymentError(error) ==
    LET errorMessage == ErrorMessageOf(error)
        errorCode == error.code
        has(p) == Includes(errorMessage, p)
    IN
    IF error = NullError THEN
        [message |-> "Unknown error occurred", code |-> UNKNOWN_ERROR,
         userMessage |-> "An unknown error occurred. Please try again."]
    ELSE IF \/ errorCode = CodeNum(4001)
            \/ errorCode = CodeStr("ACTION_REJECTED")
            \/ has("User rejected") \/ has("user rejected")
            \/ has("User denied") \/ has("user denied")
            \/ has("ethers-user-denied") THEN
        [message |-> "User rejected the transaction", code |-> USER_REJECTED,
         userMessage |-> "You rejected the signature request. Please try again if you want to proceed."]
    ELSE IF has("chainId") /\ (has("must match") \/ has("does not match")) THEN
        IF IsSome(ChainIdMatch(errorMessage)) THEN
            [message |-> "Network mismatch (wallet is on different chain): Requested "
                         \o The(ChainIdMatch(errorMessage))[1]
                         \o ", but wallet is on "
                         \o The(ChainIdMatch(errorMessage))[2],
             code |-> CHAIN_ID_MISMATCH,
             userMessage |-> "Your wallet is on the wrong network. Please switch to the correct network and try again."]
        ELSE
            [message |-> "Network mismatch (wallet selected network does not match)",
             code |-> CHAIN_ID_MISMATCH,
             userMessage |-> "Your wallet is on the wrong network. Please switch to the correct network."]
    ELSE IF has("Network mismatch") \/ has("Wrong network") \/ has("Incorrect network") THEN
        [message |-> errorMessage, code |-> NETWORK_MISMATCH,
         userMessage |-> "Please switch your wallet to the correct network."]
    ELSE IF has("locked") \/ has("Wallet is locked") THEN
        [message |-> "Wallet is locked", code |-> WALLET_LOCKED,
         userMessage |-> "Please unlock your wallet and try again."]
    ELSE IF has("insufficient") /\ (has("balance") \/ has("funds")) THEN
        [message |-> "Insufficient balance", code |-> INSUFFICIENT_BALANCE,
         userMessage |-> "You don't have enough balance to complete this payment."]
    ELSE IF has("Failed to switch") \/ has("switch chain") THEN
        [message |-> errorMessage, code |-> NETWORK_SWITCH_FAILED,
         userMessage |-> "Failed to switch network. Please switch manually in your wallet."]
    ELSE IF has("not connected") \/ has("No wallet") \/ has("Connect wallet") THEN
        [message |-> "Wallet not connected", code |-> WALLET_NOT_CONNECTED,
         userMessage |-> "Please connect your wallet first."]
    ELSE IF \/ has("No suitable") \/ has("payment requirements")
            \/ has("Missing payTo") \/ has("Missing asset") THEN
        [message |-> errorMessage, code |-> INVALID_PAYMENT_REQUIREMENTS,
         userMessage |-> "Invalid payment configuration. Please contact support."]
    ELSE IF has("exceeds maximum") THEN
        [message |-> errorMessage, code |-> AMOUNT_EXCEEDED,
         userMessage |-> "Payment amount exceeds the maximum allowed."]
    ELSE IF has("signature") \/ has("sign") \/ errorCode = CodeStr("UNKNOWN_ERROR") THEN
        [message |-> errorMessage, code |-> SIGNATURE_FAILED,
         userMessage |-> "Failed to sign the transaction. Please try again."]
    ELSE
        [message |-> errorMessage, code |-> UNKNOWN_ERROR,
         userMessage |-> "An unexpected error occurred. Please try again or contact support."]

\* the call parsePaymentError(error): Some(PaymentError), or None for the
\* TypeError of errorMessage.includes(...) on a message that is no string,
\* reached unless !error or the error code decides rule 1 before it
parsePaymentErrorCall(error) ==
    IF /\ error # NullError
       /\ ~MessageIsString(error)
       /\ error.code \notin {CodeNum(4001), CodeStr("ACTION_REJECTED")}
    THEN None
    ELSE Some(parsePaymentError(error))

\* new PaymentOperationError(paymentError)
PaymentOperationError(paymentError) ==
    [message |-> paymentError.message, name |-> "PaymentOperationError",
     code |-> CodeStr(paymentError.code), userMessage |-> paymentError.userMessage]

\* wrapPaymentError
wrapPaymentError(error) == PaymentOperationError(parsePaymentError(error))

\* ------------------------------------------------------------------------
\* Static tables
\* ------------------------------------------------------------------------

\* EvmNetworkSchema: z.enum([...]).safeParse(name).success
EvmNetworkSchema ==
    {"ethereum", "sepolia", "base", "base-sepolia", "polygon", "arbitrum", "optimism"}

\* SolanaNetworkSchema
SolanaNetworkSchema == {"solana-devnet", "solana", "solana-mainnet"}

\* chainIdMap of getChainIdFromNetwork
chainIdMap ==
    [n \in {"ethereum", "sepolia", "base", "base-sepolia", "polygon", "arbitrum",
             "optimism"} |->
        CASE n = "ethereum" -> 1
          [] n = "sepolia" -> 11155111
          [] n = "base" -> 8453
          [] n = "base-sepolia" -> 84532
          [] n = "polygon" -> 137
          [] n = "arbitrum" -> 42161
          [] n = "optimism" -> 10]

\* Names every object literal answers to without having them as keys: the
\* members it inherits from Object.prototype (the lower-case ones, since
\* the lookups lower-case the name first).
InheritedKeys == {"constructor", "__proto__"}

\* what chainIdMap[name] evaluates to for an inherited name: the member of
\* Object.prototype, an object and not a number
InheritedMember(name) == "Object.prototype." \o name

\* chainIdMap[network.toLowerCase()]: None stands for undefined
chainIdMapAt(network) ==
    LET name == ToLowerCase(network)
    IN IF name \in DOMAIN chainIdMap THEN Some(chainIdMap[name])
       ELSE IF name \in InheritedKeys THEN Some(InheritedMember(name))
       ELSE None

\* the lookup with chainIdMap[network], the name not lower-cased
getChainIdFromNetworkCaseSensitive(network) ==
    IF network \in DOMAIN chainIdMap THEN Some(chainIdMap[network])
    ELSE IF network \in InheritedKeys THEN Some(InheritedMember(network))
    ELSE None

\* getChainIdFromNetwork: None stands for the thrown `Unknown network` error
getChainIdFromNetwork(network) == chainIdMapAt(network)

\* getChainId of the wallet utilities: chainIdMap[network.toLowerCase()] || 1;
\* None would stand for a thrown error, and it never throws
getChainId(network) ==
    IF chainIdMapAt(network) = None THEN Some(1) ELSE chainIdMapAt(network)

\* networkNames[chainId] || fallback
networkNames(chainId, fallback) ==
    CASE chainId = 1 -> "Ethereum Mainnet"
      [] chainId = 11155111 -> "Sepolia Testnet"
      [] chainId = 8453 -> "Base Mainnet"
      [] chainId = 84532 -> "Base Sepolia Testnet"
      [] chainId = 137 -> "Polygon Mainnet"
      [] chainId = 42161 -> "Arbitrum One"
      [] chainId = 10 -> "Optimism Mainnet"
      [] OTHER -> fallback

\* getDefaultSolanaRpcUrl: None stands for the thrown `Unsupported Solana
\* network` error
getDefaultSolanaRpcUrl(network) ==
    LET normalized == ToLowerCase(network)
    IN IF normalized = "solana" \/ normalized = "solana-mainnet"
       THEN Some("https://api.mainnet-beta.solana.com")
       ELSE IF normalized = "solana-devnet"
       THEN Some("https://api.devnet.solana.com")
       ELSE None

\* IGNORED_ERRORS of both handlers
IGNORED_ERRORS ==
    {"X-PAYMENT header is required", "missing X-PAYMENT header", "payment_required"}

\* ERROR_MESSAGES[error] || `Payment failed: ${error}`
ERROR_MESSAGES(fam, error) ==
    CASE error = "insufficient_funds" -> "Insufficient balance to complete this payment"
      [] error = "invalid_signature" -> "Invalid payment signature"
      [] error = "expired" -> "Payment authorization has expired"
      [] error = "already_used" -> "This payment has already been used"
      [] error = "network_mismatch" -> "Payment network does not match"
      [] error = "invalid_payment" -> "Invalid payment data"
      [] error = "verification_failed" -> "Payment verification failed"
      [] error = "invalid_exact_svm_payload_transaction_simulation_failed" /\ fam = "svm" ->
            "Transaction simulation failed due to insufficient balance. Please check your wallet balance carefully and ensure you have enough funds to cover the payment and transaction fees."
      [] OTHER -> "Payment failed: " \o error

\* ------------------------------------------------------------------------
\* Inputs: what the server, the wallet and the caller may supply
\* ------------------------------------------------------------------------

Endpoint == "https://api.example.com/protected"

\* PaymentRequirements; the entries of network Base come with
\* maxTimeoutSeconds 0, the others with 60
Requirement(scheme, network, amount, payTo, asset, feePayer) ==
    [network |-> network, scheme |-> scheme, payTo |-> payTo,
     asset |-> asset, maxAmountRequired |-> amount,
     maxTimeoutSeconds |-> IF network = "Base" THEN 0 ELSE 60,
     extra |-> [feePayer |-> feePayer]]

\* The entries a server offers: both chain families, an upper-case network
\* name, an amount beyond 2^53, a scheme other than exact, a network of no
\* family, and entries that lack payTo or extra.feePayer or have an empty
\* extra.feePayer.
Requirements ==
    { Requirement("exact", "base-sepolia", "1000000", Some("0xAAA"), Some("0xBBB"), None),
      Requirement("exact", "Base", "1000000000000000000", Some("0xAAA"), Some("0xBBB"), None),
      Requirement("exact", "base-sepolia", "1000000", None, Some("0xBBB"), None),
      Requirement("upto", "base-sepolia", "1000000", Some("0xAAA"), Some("0xBBB"), None),
      Requirement("exact", "near", "1000000", Some("0xAAA"), Some("0xBBB"), None),
      Requirement("exact", "solana-devnet", "1000000", Some("PayToSol"), Some("MintSol"), Some("FeePayerSol")),
      Requirement("exact", "Solana", "1000000000000000000", Some("PayToSol"), Some("MintSol"), None),
      Requirement("exact", "solana", "1000000", Some("PayToSol"), Some("MintSol"), Some("")) }

\* accepts lists of at most n entries
AcceptsUpTo(n) == UNION { [1..k -> Requirements] : k \in 0..n }

\* error strings of a 402 body: the three sentinels, mapped backend codes
\* and an unmapped one
BodyErrors ==
    IGNORED_ERRORS \cup {"insufficient_funds", "invalid_signature", "settlement_timeout"}

Body(error, accepts) == [error |-> error, accepts |-> accepts, x402Version |-> 1]

\* x402Response bodies of the first 402: every accepts list without an
\* error, and every error string (also the empty one) with no list, with an
\* EVM entry and with a Solana entry
InitialBodies ==
    { Body(None, a) : a \in {None} \cup { Some(l) : l \in AcceptsUpTo(MaxAccepts) } }
    \cup { Body(Some(e), Some(a)) :
              e \in BodyErrors \cup {""},
              a \in { <<>>,
                      <<Requirement("exact", "base-sepolia", "1000000", Some("0xAAA"), Some("0xBBB"), None)>>,
                      <<Requirement("exact", "solana-devnet", "1000000", Some("PayToSol"), Some("MintSol"), Some("FeePayerSol"))>> } }

\* bodies of a retry response
RetryBodies == { Body(e, None) : e \in {None} \cup { Some(x) : x \in BodyErrors \cup {""} } }

\* a Response: seq numbers the request it answers; body is None when
\* response.json() rejects
Response(seq, status, body) == [seq |-> seq, status |-> status, body |-> body]

InitialResponses ==
    { Response(1, st, None) : st \in {200, 500} }
    \cup { Response(1, 402, b) : b \in {None} \cup { Some(x) : x \in InitialBodies } }

RetryResponses ==
    { Response(2, st, None) : st \in {200, 500} }
    \cup { Response(2, 402, b) : b \in {None} \cup { Some(x) : x \in RetryBodies } }

\* an endpoint that asks for no payment or makes one of two offers, each
\* with an entry of either family
TwoOffers ==
    { Response(1, 200, None),
      Response(1, 402, Some(Body(None, Some(
          <<Requirement("exact", "base-sepolia", "1000000", Some("0xAAA"), Some("0xBBB"), None),
            Requirement("exact", "solana-devnet", "1000000", Some("PayToSol"), Some("MintSol"),
                        Some("FeePayerSol"))>>)))),
      Response(1, 402, Some(Body(None, Some(
          <<Requirement("exact", "Base", "1000000000000000000", Some("0xAAA"), Some("0xBBB"),
                        None),
            Requirement("exact", "solana-devnet", "1000000", Some("PayToSol"), Some("MintSol"),
                        Some("FeePayerSol"))>>)))) }

\* a paid request is served, or refused with a backend error
PaidOrRefused ==
    { Response(2, 200, None),
      Response(2, 402, Some(Body(Some("invalid_signature"), None))) }

\* the responses an endpoint may give to a first request: any of the
\* initial responses, or those of the endpoint with two offers
InitialResponsesOf(sv) == IF sv = "offers" THEN TwoOffers ELSE InitialResponses

\* the responses it may give to a request that carries a payment
RetryResponsesOf(sv) == IF sv = "offers" THEN PaidOrRefused ELSE RetryResponses

\* what fetch rejects with
FetchError == [JsError("Failed to fetch") EXCEPT !.name = "TypeError"]

\* what response.json() rejects with
JsonError == [JsError("Unexpected token < in JSON at position 0") EXCEPT !.name = "SyntaxError"]

\* what a wallet call rejects with: the user declining, and two failures
WalletErrors ==
    { ProviderError(CodeNum(4001), "User rejected the request."),
      ProviderError(CodeNum(4902), "Unrecognized chain ID. Try adding the chain first."),
      ProviderError(CodeNum(0 - 32603), "Internal JSON-RPC error.") }

\* what an on-chain read rejects with
RpcError == JsError("failed to get info about account: fetch failed")

\* EvmWalletAdapter / WalletAdapter: which capabilities the object has
EvmWallets ==
    { [getChainId |-> g, address |-> Some("0xUSER"), publicKey |-> None,
       switchChain |-> w, signTransaction |-> FALSE] : g \in BOOLEAN, w \in BOOLEAN }

SvmWallet(address, publicKey, signTransaction) ==
    [getChainId |-> FALSE, address |-> address, publicKey |-> publicKey,
     switchChain |-> FALSE, signTransaction |-> signTransaction]

\* a wallet-adapter wallet (publicKey), a custom one (address), one with
\* neither, one that cannot sign, and one whose account is the account a
\* server names as fee payer
SvmWallets ==
    { SvmWallet(None, Some("UserSol"), TRUE),
      SvmWallet(Some("UserSol"), None, TRUE),
      SvmWallet(None, None, TRUE),
      SvmWallet(Some("UserSol"), Some("UserSol"), FALSE),
      SvmWallet(Some("FeePayerSol"), None, TRUE) }

\* chain the EVM wallet is on when the flow starts
WalletChains == {0, 1, 84532}

\* maxPaymentAmount of the config: absent or a bigint
Ceilings == {None, Some("0"), Some("1000000"), Some("999999999999999999")}

\* requestInit.headers is a HeadersInit: absent, a plain object, or a Headers
\* instance; entries are the name-value pairs it holds
HeadersInit(form, entries) == [form |-> form, entries |-> entries]

\* requestInit of the caller
RequestInits ==
    { [body |-> None, method |-> None, headers |-> HeadersInit("undefined", {})],
      [body |-> None, method |-> Some("GET"),
       headers |-> HeadersInit("object", {<<"Authorization", "Bearer token">>})],
      [body |-> Some("{\"q\":1}"), method |-> None,
       headers |-> HeadersInit("Headers", {<<"Authorization", "Bearer token">>})] }

\* Date.now() / 1000 at header creation
Times == {1700000000, 1700000060}

\* the generator returning the value it produced first over again
randomBytesCached(draws) == "0x" \o NumToString(1, 10)

\* ethers.hexlify(ethers.randomBytes(32)) when the generator has produced
\* draws values before: a value it has not produced before, named by its
\* position in the generator's output
randomBytes(draws) == "0x" \o NumToString(draws + 1, 10)

\* signatures a wallet returns
Signatures == {"0xSIG"}

\* ------------------------------------------------------------------------
\* State
\* ------------------------------------------------------------------------

VARIABLES
    server,               \* the endpoint: "any" or "offers", see InitialResponsesOf
    randomDraws,          \* how many values the random generator has produced
    other,                \* a second call suspended at an await, None if there is none
    evaluation,           \* the last call of an exported function: fn, input, outcome
    backoff,              \* the call of retryWithBackoff in progress
    walletState,          \* WalletStore.state: address, networkType, isConnecting, error
    localStorage,         \* the wallet keys of window.localStorage
    storeCalls,           \* the calls of the store that wait for a wallet
    left,                 \* networks left by disconnect() and not rejoined since
    family,               \* "evm": handleEvmPayment runs, "svm": handleSvmPayment
    config,               \* {maxPaymentAmount, rpcUrl} of the client config
    requestInit,          \* the caller's RequestInit
    wallet,               \* capabilities of config.wallet
    activeChain,          \* chain the EVM wallet is on
    pc,                   \* step of the handler that runs next
    requests,             \* every fetch(endpoint, init) made, in order
    walletCalls,          \* every wallet method called, in order
    chainReads,           \* on-chain reads made through the Connection
    initialResponse,      \* locals of the handler, None while unset
    rawResponse,
    x402Version,
    selectedRequirements,
    targetChainId,
    currentChainId,
    effectiveRpcUrl,
    header,               \* locals of the header builder in progress
    paymentHeader,
    retryResponse,
    returned,             \* the Response the call resolved with
    thrown,               \* the error the call rejected with
    failedAt              \* the step that threw it

inputs == <<family, config, requestInit, wallet>>
effects == <<requests, walletCalls, chainReads>>
locals == <<initialResponse, rawResponse, x402Version, selectedRequirements, targetChainId,
            currentChainId, effectiveRpcUrl, header, paymentHeader, retryResponse>>
result == <<returned, thrown, failedAt>>
flow == <<server, randomDraws, other, inputs, activeChain, pc, effects, locals, result>>
store == <<walletState, localStorage, storeCalls, left>>
apart == <<backoff, store>>
aside == <<evaluation, apart>>
vars == <<flow, aside>>

\* retryWithBackoff has not been called
NoBackoff ==
    [i |-> 0, pc |-> "idle", maxRetries |-> 0, baseDelay |-> 0, attempts |-> <<>>,
     sleeps |-> <<>>, lastError |-> None, settled |-> None]

\* NetworkType, without UNKNOWN
StoreNetworks == {"evm", "solana", "svm"}

\* the state a WalletStore is constructed with
NoWalletState ==
    [error |-> None, address |-> None, networkType |-> None, isConnecting |-> FALSE]

\* a localStorage without wallet keys: no network flagged as disconnected,
\* no cached address, no connected network type
NoLocalStorage ==
    [disconnected |-> {}, addresses |-> [n \in StoreNetworks |-> None],
     connectedType |-> None]

\* the wallet store is as constructed and nothing calls it
IdleStore ==
    /\ walletState = NoWalletState
    /\ localStorage = NoLocalStorage
    /\ storeCalls = {}
    /\ left = {}

\* nothing but a payment flow or a function call goes on
IdleApart == backoff = NoBackoff /\ IdleStore

NoHeader ==
    [now |-> 0, nonce |-> "", authorization |-> None, instructions |-> <<>>,
     userPubkey |-> "", programId |-> "", decimals |-> 0, payerKey |-> "",
     blockhash |-> "", sourceAtaInfo |-> "", destAtaInfo |-> ""]

Init ==
    /\ server = "any"
    /\ evaluation = None
    /\ IdleApart
    /\ randomDraws = 0
    /\ other = None
    /\ family \in {"evm", "svm"}
    /\ config \in [maxPaymentAmount : Ceilings,
                   rpcUrl : IF family = "svm" THEN {None, Some("https://rpc.example.com")}
                            ELSE {None}]
    /\ requestInit \in RequestInits
    /\ wallet \in (IF family = "evm" THEN EvmWallets ELSE SvmWallets)
    /\ activeChain \in (IF family = "evm" THEN WalletChains ELSE {0})
    /\ pc = "initialRequest"
    /\ requests = <<>>
    /\ walletCalls = <<>>
    /\ chainReads = 0
    /\ initialResponse = None
    /\ rawResponse = None
    /\ x402Version = 0
    /\ selectedRequirements = None
    /\ targetChainId = 0
    /\ currentChainId = None
    /\ effectiveRpcUrl = None
    /\ header = NoHeader
    /\ paymentHeader = None
    /\ retryResponse = None
    /\ returned = None
    /\ thrown = None
    /\ failedAt = ""

\* the call rejects with error
Throw(error) ==
    /\ pc' = "failed"
    /\ thrown' = Some(error)
    /\ failedAt' = pc
    /\ UNCHANGED returned

\* the call resolves with response
Return(response) ==
    /\ pc' = "done"
    /\ returned' = Some(response)
    /\ UNCHANGED <<thrown, failedAt>>

Goto(step) ==
    /\ pc' = step
    /\ UNCHANGED result

\* a string that is neither undefined nor empty
TruthyString(o) == IsSome(o) /\ The(o) # ""

\* record of one wallet call: error is None when the call resolved, the
\* rejection otherwise
WalletCall(op, arg, error) == [error |-> error, result |-> "", op |-> op, arg |-> arg]

\* record of a signature request that resolved with answer
WalletAnswer(op, arg, answer) == [error |-> None, result |-> answer, op |-> op, arg |-> arg]

\* ------------------------------------------------------------------------
\* handleEvmPayment / handleSvmPayment, steps 1 to 5 (the same in both)
\* ------------------------------------------------------------------------

\* requestInit?.method || "POST"
MethodOf(init) == IF TruthyString(init.method) THEN The(init.method) ELSE "POST"

\* the early return taken on !initialResponse.ok instead
NeedsPaymentUnlessOk(response) == response.status # 200

\* fetch(endpoint, init) as the server sees it; fetch reads the headers of
\* every form of HeadersInit
Request(endpoint, method, body, headers) ==
    [body |-> body, method |-> method, headers |-> headers, endpoint |-> endpoint]

\* initialResponse.status !== 402 is the early return
NeedsPayment(response) == response.status = 402

\* 1. Make initial request; if not 402, return as-is
InitialRequest ==
    /\ pc = "initialRequest"
    /\ requests' = Append(requests, Request(Endpoint, MethodOf(requestInit), requestInit.body,
                                            requestInit.headers.entries))
    /\ \/ /\ Throw(FetchError)
          /\ UNCHANGED initialResponse
       \/ \E r \in InitialResponsesOf(server) :
            /\ initialResponse' = Some(r)
            /\ IF ~NeedsPayment(r) THEN Return(r) ELSE Goto("parseBody")
    /\ UNCHANGED <<server, other, randomDraws, aside>>
    /\ UNCHANGED <<inputs, activeChain, walletCalls, chainReads, rawResponse,
                   x402Version, selectedRequirements, targetChainId, currentChainId, effectiveRpcUrl,
                   header, paymentHeader, retryResponse>>

\* the filter with one sentinel only
IsPaymentErrorOneSentinel(error) == TruthyString(error) /\ The(error) # "payment_required"

\* rawResponse.error && !IGNORED_ERRORS.includes(rawResponse.error)
IsPaymentError(error) == TruthyString(error) /\ The(error) \notin IGNORED_ERRORS

\* the error thrown for a backend error string
BackendError(fam, error) == wrapPaymentError(JsError(ERROR_MESSAGES(fam, error)))

\* 2.-3. Parse the 402 body; a backend error outside IGNORED_ERRORS is thrown
ParseRequirements ==
    /\ pc = "parseBody"
    /\ LET r == The(initialResponse)
       IN IF r.body = None
          THEN Throw(JsonError) /\ UNCHANGED rawResponse
          ELSE /\ rawResponse' = r.body
               /\ IF IsPaymentError(The(r.body).error)
                  THEN Throw(BackendError(family, The(The(r.body).error)))
                  ELSE Goto("select")
    /\ UNCHANGED <<server, other, randomDraws, aside>>
    /\ UNCHANGED <<inputs, activeChain, effects, initialResponse, x402Version,
                   selectedRequirements, targetChainId, currentChainId, effectiveRpcUrl, header, paymentHeader,
                   retryResponse>>

\* the predicate of parsedPaymentRequirements.find
Suitable(fam, req) ==
    /\ req.scheme = "exact"
    /\ ToLowerCase(req.network) \in
          (IF fam = "evm" THEN EvmNetworkSchema ELSE SolanaNetworkSchema)

\* findLast instead of find: the last element that satisfies the predicate
selectRequirementsLast(fam, accepts) ==
    LET hits == { i \in 1..Len(accepts) : Suitable(fam, accepts[i]) }
    IN IF hits = {} THEN None
       ELSE Some(accepts[CHOOSE i \in hits : \A j \in hits : i >= j])

\* find(...) || accepts[0]: the first entry stands in when none is suitable
selectRequirementsOrFirst(fam, accepts) ==
    LET hits == { i \in 1..Len(accepts) : Suitable(fam, accepts[i]) }
    IN IF hits # {} THEN Some(accepts[CHOOSE i \in hits : \A j \in hits : i <= j])
       ELSE IF Len(accepts) > 0 THEN Some(accepts[1])
       ELSE None

\* Array.prototype.find: the first element that satisfies the predicate
selectRequirements(fam, accepts) ==
    LET hits == { i \in 1..Len(accepts) : Suitable(fam, accepts[i]) }
    IN IF hits = {} THEN None
       ELSE Some(accepts[CHOOSE i \in hits : \A j \in hits : i <= j])

\* rawResponse.accepts || []
AcceptsOf(raw) == IF IsSome(raw.accepts) THEN The(raw.accepts) ELSE <<>>

NoSuitableError(fam) ==
    JsError(IF fam = "evm" THEN "No suitable EVM payment requirements found"
            ELSE "No suitable Solana payment requirements found")

\* the selection kept in a place both calls see: a call takes the
\* requirement the other call selected when there is one
SelectRequirementCached ==
    /\ pc = "select"
    /\ LET cached == IF IsSome(other) THEN The(other).selectedRequirements ELSE None
           selected == IF IsSome(cached) THEN cached
                       ELSE selectRequirements(family, AcceptsOf(The(rawResponse)))
       IN IF selected = None
          THEN /\ Throw(NoSuitableError(family))
               /\ UNCHANGED selectedRequirements
          ELSE /\ selectedRequirements' = selected
               /\ Goto("checkAmount")
    /\ x402Version' = The(rawResponse).x402Version
    /\ UNCHANGED <<server, other, randomDraws, aside>>
    /\ UNCHANGED <<inputs, activeChain, effects, initialResponse, rawResponse,
                   targetChainId, currentChainId,
                   effectiveRpcUrl, header, paymentHeader, retryResponse>>

\* 4. Select suitable payment requirement
SelectRequirement ==
    /\ pc = "select"
    /\ LET selected == selectRequirements(family, AcceptsOf(The(rawResponse)))
       IN IF selected = None
          THEN /\ Throw(NoSuitableError(family))
               /\ UNCHANGED selectedRequirements
          ELSE /\ selectedRequirements' = selected
               /\ Goto("checkAmount")
    /\ x402Version' = The(rawResponse).x402Version
    /\ UNCHANGED <<server, other, randomDraws, aside>>
    /\ UNCHANGED <<inputs, activeChain, effects, initialResponse, rawResponse,
                   targetChainId, currentChainId,
                   effectiveRpcUrl, header, paymentHeader, retryResponse>>

\* maxPaymentAmount !== undefined: a ceiling of zero is a ceiling too
CeilingInForceAtZero(max) == IsSome(max)

\* maxPaymentAmount && maxPaymentAmount > BigInt(0)
CeilingInForce(max) == IsSome(max) /\ BigIntGreater(The(max), "0")

\* s + 1 on a decimal numeral
RECURSIVE NumeralSucc(_)
NumeralSucc(s) ==
    IF Len(s) = 0 THEN "1"
    ELSE LET d == IndexIn(DecDigits, SubSeq(s, Len(s), Len(s)))
         IN IF d = 10 THEN NumeralSucc(SubSeq(s, 1, Len(s) - 1)) \o "0"
            ELSE SubSeq(s, 1, Len(s) - 1) \o SubSeq(DecDigits, d + 1, d + 1)

RECURSIVE Zeros(_)
Zeros(n) == IF n = 0 THEN "" ELSE "0" \o Zeros(n - 1)

\* Number(s) for a canonical numeral: a double keeps about 16 significant
\* decimal digits, the rest is rounded away
NumberOf(s) ==
    IF Len(s) <= 16 THEN s
    ELSE LET kept == SubSeq(s, 1, 16)
             up == IndexIn(DecDigits, SubSeq(s, 17, 17)) > 5
         IN (IF up THEN NumeralSucc(kept) ELSE kept) \o Zeros(Len(s) - 16)

\* Number(required) > Number(max): the comparison in floating point
AmountExceedsAsNumbers(required, max) ==
    BigIntGreater(NumberOf(required), NumberOf(max))

\* BigInt(selectedRequirements.maxAmountRequired) > maxPaymentAmount
AmountExceeds(required, max) == BigIntGreater(required, max)

AmountExceededError(required, max) ==
    JsError("Payment amount " \o required \o " exceeds maximum allowed " \o max)

BigIntSyntaxError(s) ==
    [JsError("Cannot convert " \o s \o " to a BigInt") EXCEPT !.name = "SyntaxError"]

\* 5. Check amount against max value if specified.  The first response and
\* its body were read for the last time at step 4 (x402Version, accepts and
\* the networks the error log lists); the state keeps a local only while
\* the code can still read it, so both are forgotten once step 5 passes.
CheckAmount ==
    /\ pc = "checkAmount"
    /\ LET max == config.maxPaymentAmount
           required == The(selectedRequirements).maxAmountRequired
           proceed == /\ Goto(IF family = "evm" THEN "targetChain" ELSE "rpcUrl")
                      /\ initialResponse' = None
                      /\ rawResponse' = None
           fail(error) == /\ Throw(error)
                          /\ UNCHANGED <<initialResponse, rawResponse>>
       IN IF ~CeilingInForce(max)
          THEN proceed
          ELSE IF BigInt(required) = None
          THEN fail(BigIntSyntaxError(required))
          ELSE IF AmountExceeds(The(BigInt(required)), The(max))
          THEN fail(AmountExceededError(required, The(max)))
          ELSE proceed
    /\ UNCHANGED <<server, other, randomDraws, aside>>
    /\ UNCHANGED <<inputs, activeChain, effects, x402Version, selectedRequirements,
                   targetChainId, currentChainId, effectiveRpcUrl, header, paymentHeader,
                   retryResponse>>

\* ------------------------------------------------------------------------
\* handleEvmPayment, steps 6 to 9
\* ------------------------------------------------------------------------

UnknownNetworkError(network) == JsError("Unknown network: " \o network)

\* 6. Get target chain ID
ResolveTargetChain ==
    /\ pc = "targetChain"
    /\ LET chainId == getChainIdFromNetwork(The(selectedRequirements).network)
       IN IF chainId = None
          THEN /\ Throw(UnknownNetworkError(The(selectedRequirements).network))
               /\ UNCHANGED targetChainId
          ELSE /\ targetChainId' = The(chainId)
               /\ Goto("getChainId")
    /\ UNCHANGED <<server, other, randomDraws, aside>>
    /\ UNCHANGED <<inputs, activeChain, effects, initialResponse, rawResponse, x402Version,
                   selectedRequirements, currentChainId, effectiveRpcUrl, header,
                   paymentHeader, retryResponse>>

\* what the wallet's getChainId resolves with: `0x${chainId.toString(16)}`
ChainIdHex(chainId) == "0x" \o NumToString(chainId, 16)

\* 7. Get current wallet chainId (if wallet provides it); a failure leaves
\* currentChainId undefined
GetCurrentChainId ==
    /\ pc = "getChainId"
    /\ IF wallet.getChainId
       THEN \/ /\ walletCalls' = Append(walletCalls, WalletCall("getChainId", "", None))
               /\ currentChainId' = Some(ParseInt16(ChainIdHex(activeChain)))
            \/ \E e \in WalletErrors :
               /\ walletCalls' = Append(walletCalls, WalletCall("getChainId", "", Some(e)))
               /\ UNCHANGED currentChainId
       ELSE UNCHANGED <<walletCalls, currentChainId>>
    /\ Goto("switchChain")
    /\ UNCHANGED <<server, other, randomDraws, aside>>
    /\ UNCHANGED <<inputs, activeChain, requests, chainReads, initialResponse, rawResponse,
                   x402Version, selectedRequirements, targetChainId, effectiveRpcUrl,
                   header, paymentHeader, retryResponse>>

\* currentChainId && currentChainId !== targetChainId
KnownMismatch(current, target) ==
    IsSome(current) /\ TruthyNumber(The(current)) /\ The(current) # target

\* wallet.switchChain && !currentChainId
BestEffort(w, current) ==
    w.switchChain /\ ~(IsSome(current) /\ TruthyNumber(The(current)))

\* the error of a known mismatch on a wallet without switchChain
MismatchError(current, target, network) ==
    LET currentNetworkName == networkNames(current, "Chain " \o NumToString(current, 10))
        targetNetworkName == networkNames(target, network)
    IN JsError("Network mismatch: Your wallet is connected to " \o currentNetworkName
               \o ", but payment requires " \o targetNetworkName
               \o ". Please switch to " \o targetNetworkName
               \o " manually in your wallet.")

\* finalError without the branch that keeps the code of a user rejection
SwitchErrorAlwaysFailed(error, target, network) ==
    PaymentOperationError(
        [message |-> wrapPaymentError(error).message, code |-> NETWORK_SWITCH_FAILED,
         userMessage |-> "Failed to switch to " \o networkNames(target, network)
                         \o ". Please switch manually in your wallet."])

\* finalError of the catch around the required switch
SwitchError(error, target, network) ==
    LET targetNetworkName == networkNames(target, network)
        wrappedError == wrapPaymentError(error)
    IN IF wrappedError.code = CodeStr(USER_REJECTED)
       THEN PaymentOperationError(
              [message |-> wrappedError.message, code |-> wrappedError.code.str,
               userMessage |-> "You rejected the network switch request. Please switch to "
                               \o targetNetworkName \o " manually."])
       ELSE PaymentOperationError(
              [message |-> wrappedError.message, code |-> NETWORK_SWITCH_FAILED,
               userMessage |-> "Failed to switch to " \o targetNetworkName
                               \o ". Please switch manually in your wallet."])

\* 8. known mismatch, no wallet.switchChain: throw
FailUnswitchable ==
    /\ pc = "switchChain"
    /\ KnownMismatch(currentChainId, targetChainId)
    /\ ~wallet.switchChain
    /\ Throw(wrapPaymentError(MismatchError(The(currentChainId), targetChainId,
                                            The(selectedRequirements).network)))
    /\ UNCHANGED <<server, other, randomDraws, aside>>
    /\ UNCHANGED <<inputs, activeChain, effects, locals>>

\* 8. known mismatch: await wallet.switchChain(hex); its failure is thrown
RequiredSwitch ==
    /\ pc = "switchChain"
    /\ KnownMismatch(currentChainId, targetChainId)
    /\ wallet.switchChain
    /\ \/ /\ walletCalls' = Append(walletCalls,
                                   WalletCall("switchChain", ChainIdHex(targetChainId), None))
          /\ activeChain' = ParseInt16(ChainIdHex(targetChainId))
          /\ Goto("buildHeader")
       \/ \E e \in WalletErrors :
          /\ walletCalls' = Append(walletCalls,
                                   WalletCall("switchChain", ChainIdHex(targetChainId), Some(e)))
          /\ Throw(SwitchError(e, targetChainId, The(selectedRequirements).network))
          /\ UNCHANGED activeChain
    /\ UNCHANGED <<server, other, randomDraws, aside>>
    /\ UNCHANGED <<inputs, requests, chainReads, locals>>

\* the best-effort switch without its catch: a failure is thrown
BestEffortSwitchThrows ==
    /\ pc = "switchChain"
    /\ ~KnownMismatch(currentChainId, targetChainId)
    /\ BestEffort(wallet, currentChainId)
    /\ \/ /\ walletCalls' = Append(walletCalls,
                                   WalletCall("switchChain", ChainIdHex(targetChainId), None))
          /\ activeChain' = ParseInt16(ChainIdHex(targetChainId))
          /\ Goto("buildHeader")
       \/ \E e \in WalletErrors :
          /\ walletCalls' = Append(walletCalls,
                                   WalletCall("switchChain", ChainIdHex(targetChainId), Some(e)))
          /\ Throw(wrapPaymentError(e))
          /\ UNCHANGED activeChain
    /\ UNCHANGED <<server, other, randomDraws, aside>>
    /\ UNCHANGED <<inputs, requests, chainReads, locals>>

\* 8. current chain unknown: try wallet.switchChain(hex), continue anyway
BestEffortSwitch ==
    /\ pc = "switchChain"
    /\ ~KnownMismatch(currentChainId, targetChainId)
    /\ BestEffort(wallet, currentChainId)
    /\ \/ /\ walletCalls' = Append(walletCalls,
                                   WalletCall("switchChain", ChainIdHex(targetChainId), None))
          /\ activeChain' = ParseInt16(ChainIdHex(targetChainId))
       \/ \E e \in WalletErrors :
          /\ walletCalls' = Append(walletCalls,
                                   WalletCall("switchChain", ChainIdHex(targetChainId), Some(e)))
          /\ UNCHANGED activeChain
    /\ Goto("buildHeader")
    /\ UNCHANGED <<server, other, randomDraws, aside>>
    /\ UNCHANGED <<inputs, requests, chainReads, locals>>

\* 8. neither branch applies: no switch
NoSwitch ==
    /\ pc = "switchChain"
    /\ ~KnownMismatch(currentChainId, targetChainId)
    /\ ~BestEffort(wallet, currentChainId)
    /\ Goto("buildHeader")
    /\ UNCHANGED <<server, other, randomDraws, aside>>
    /\ UNCHANGED <<inputs, activeChain, effects, locals>>

\* ------------------------------------------------------------------------
\* createEvmPaymentHeader
\* ------------------------------------------------------------------------

\* String(now + maxTimeoutSeconds), with no default
ValidBeforeNoDefault(now, maxTimeoutSeconds) == NumToString(now + maxTimeoutSeconds, 10)

\* String(now + (paymentRequirements.maxTimeoutSeconds || 3600))
ValidBefore(now, maxTimeoutSeconds) ==
    NumToString(now + (IF TruthyNumber(maxTimeoutSeconds) THEN maxTimeoutSeconds ELSE 3600),
                10)

\* the authorization object that is signed
Authorization(w, req, now, nonce) ==
    [from |-> The(w.address), nonce |-> nonce, to |-> The(req.payTo),
     value |-> req.maxAmountRequired,
     validAfter |-> "0",
     validBefore |-> ValidBefore(now, req.maxTimeoutSeconds)]

\* headerPayload that leaves the wallet's signature out
EvmHeaderPayloadUnsigned(version, req, auth, signature) ==
    [network |-> req.network, scheme |-> req.scheme,
     x402Version |-> version, x402_version |-> version,
     payload |-> [signature |-> "0x",
                  authorization |-> [from |-> auth.from, nonce |-> auth.nonce,
                                     to |-> auth.to,
                                     value |-> auth.value,
                                     validAfter |-> auth.validAfter,
                                     validBefore |-> auth.validBefore,
                                     valid_after |-> auth.validAfter,
                                     valid_before |-> auth.validBefore]]]

\* headerPayload with valid_before filled from validAfter
EvmHeaderPayloadMixedUp(version, req, auth, signature) ==
    [network |-> req.network, scheme |-> req.scheme,
     x402Version |-> version, x402_version |-> version,
     payload |-> [signature |-> signature,
                  authorization |-> [from |-> auth.from, nonce |-> auth.nonce,
                                     to |-> auth.to,
                                     value |-> auth.value,
                                     validAfter |-> auth.validAfter,
                                     validBefore |-> auth.validBefore,
                                     valid_after |-> auth.validAfter,
                                     valid_before |-> auth.validAfter]]]

\* headerPayload of the EVM builder, both spellings of the dual-spelled keys
EvmHeaderPayload(version, req, auth, signature) ==
    [network |-> req.network, scheme |-> req.scheme,
     x402Version |-> version, x402_version |-> version,
     payload |-> [signature |-> signature,
                  authorization |-> [from |-> auth.from, nonce |-> auth.nonce,
                                     to |-> auth.to,
                                     value |-> auth.value,
                                     validAfter |-> auth.validAfter,
                                     validBefore |-> auth.validBefore,
                                     valid_after |-> auth.validAfter,
                                     valid_before |-> auth.validBefore]]]

\* btoa(JSON.stringify(payload)): the header is the encoding of the JSON text
\* of the payload
EncodeHeader(payload) == [base64 |-> [json |-> payload]]

\* 9. createEvmPaymentHeader up to the signature request: payTo and asset
\* are validated, the time is read and the nonce drawn; every error of the
\* builder is wrapped by the handler's catch
BuildAuthorization ==
    /\ pc = "buildHeader"
    /\ family = "evm"
    /\ LET req == The(selectedRequirements)
       IN IF ~TruthyString(req.payTo)
          THEN /\ Throw(wrapPaymentError(JsError("Missing payTo in payment requirements")))
               /\ UNCHANGED <<header, randomDraws>>
          ELSE IF ~TruthyString(req.asset)
          THEN /\ Throw(wrapPaymentError(JsError(
                        "Missing asset (token contract) in payment requirements")))
               /\ UNCHANGED <<header, randomDraws>>
          ELSE \E now \in Times :
               /\ header' = [header EXCEPT
                                !.now = now, !.nonce = randomBytes(randomDraws),
                                !.authorization = Some(Authorization(
                                    wallet, req, now, randomBytes(randomDraws)))]
               /\ randomDraws' = randomDraws + 1
               /\ Goto("signTypedData")
    /\ UNCHANGED <<server, other, aside>>
    /\ UNCHANGED <<inputs, activeChain, effects, initialResponse, rawResponse, x402Version,
                   selectedRequirements, targetChainId, currentChainId, effectiveRpcUrl,
                   paymentHeader, retryResponse>>

\* the signature step with the handler's catch rethrowing the raw error
SignTypedDataRethrowsRaw ==
    /\ pc = "signTypedData"
    /\ \/ \E signature \in Signatures :
          /\ walletCalls' = Append(walletCalls,
                                   WalletAnswer("signTypedData", header.nonce, signature))
          /\ paymentHeader' = Some(EncodeHeader(EvmHeaderPayload(
                                  x402Version, The(selectedRequirements),
                                  The(header.authorization), signature)))
          /\ Goto("retry")
       \/ \E e \in WalletErrors :
          /\ walletCalls' = Append(walletCalls,
                                   WalletCall("signTypedData", header.nonce, Some(e)))
          /\ Throw(e)
          /\ UNCHANGED paymentHeader
    /\ UNCHANGED <<server, other, randomDraws, aside>>
    /\ UNCHANGED <<inputs, activeChain, requests, chainReads, initialResponse, rawResponse,
                   x402Version, selectedRequirements, targetChainId, currentChainId,
                   effectiveRpcUrl, header, retryResponse>>

\* 9. await wallet.signTypedData(domain, types, authorization), then encode
SignTypedData ==
    /\ pc = "signTypedData"
    /\ \/ \E signature \in Signatures :
          /\ walletCalls' = Append(walletCalls,
                                   WalletAnswer("signTypedData", header.nonce, signature))
          /\ paymentHeader' = Some(EncodeHeader(EvmHeaderPayload(
                                  x402Version, The(selectedRequirements),
                                  The(header.authorization), signature)))
          /\ Goto("retry")
       \/ \E e \in WalletErrors :
          /\ walletCalls' = Append(walletCalls,
                                   WalletCall("signTypedData", header.nonce, Some(e)))
          /\ Throw(wrapPaymentError(e))
          /\ UNCHANGED paymentHeader
    /\ UNCHANGED <<server, other, randomDraws, aside>>
    /\ UNCHANGED <<inputs, activeChain, requests, chainReads, initialResponse, rawResponse,
                   x402Version, selectedRequirements, targetChainId, currentChainId,
                   effectiveRpcUrl, header, retryResponse>>

\* ------------------------------------------------------------------------
\* handleSvmPayment, step 6
\* ------------------------------------------------------------------------

UnsupportedSolanaError(network) == JsError("Unsupported Solana network: " \o network)

\* 6. Get RPC URL: rpcUrl || getDefaultSolanaRpcUrl(selectedRequirements.network)
ResolveRpcUrl ==
    /\ pc = "rpcUrl"
    /\ LET network == The(selectedRequirements).network
       IN IF TruthyString(config.rpcUrl)
          THEN effectiveRpcUrl' = config.rpcUrl /\ Goto("buildHeader")
          ELSE IF getDefaultSolanaRpcUrl(network) = None
          THEN Throw(UnsupportedSolanaError(network)) /\ UNCHANGED effectiveRpcUrl
          ELSE effectiveRpcUrl' = getDefaultSolanaRpcUrl(network) /\ Goto("buildHeader")
    /\ UNCHANGED <<server, other, randomDraws, aside>>
    /\ UNCHANGED <<inputs, activeChain, effects, initialResponse, rawResponse, x402Version,
                   selectedRequirements, targetChainId, currentChainId, header,
                   paymentHeader, retryResponse>>

\* ------------------------------------------------------------------------
\* createSvmPaymentHeader; every error of the builder is wrapped by the
\* handler's catch
\* ------------------------------------------------------------------------

TOKEN_PROGRAM_ID == "TokenkegQfeZyiNwAJbNbGKPFXCWuBvf9Ss623VQ5DA"
TOKEN_2022_PROGRAM_ID == "TokenzQdBNbLqP5VEhdkAS6EPFLC1PHnBqCXEpPxuEb"
COMPUTE_BUDGET_PROGRAM_ID == "ComputeBudget111111111111111111111111111111"

Instruction(programId, kind, accounts, value, decimals) ==
    [programId |-> programId, decimals |-> decimals, value |-> value, kind |-> kind,
     accounts |-> accounts]

\* ComputeBudgetProgram.setComputeUnitLimit({units: 7_000})
SetComputeUnitLimit ==
    Instruction(COMPUTE_BUDGET_PROGRAM_ID, "SetComputeUnitLimit", <<>>, "7000", 0)

\* ComputeBudgetProgram.setComputeUnitPrice({microLamports: 1})
SetComputeUnitPrice ==
    Instruction(COMPUTE_BUDGET_PROGRAM_ID, "SetComputeUnitPrice", <<>>, "1", 0)

\* getAssociatedTokenAddress(mint, owner, false, programId)
AssociatedTokenAddress(mint, owner, programId) ==
    [ata |-> <<mint, owner, programId>>]

\* createTransferCheckedInstruction(source, mint, destination, owner, amount,
\* decimals, [], programId)
TransferChecked(source, mint, destination, owner, amount, decimals, programId) ==
    Instruction(programId, "TransferChecked", <<source, mint, destination, owner>>,
                amount, decimals)

\* instructions.unshift(instruction): the instruction goes in front
Unshift(instructions, instruction) == <<instruction>> \o instructions

\* instructions.push(instruction): the instruction goes to the end
Push(instructions, instruction) == Append(instructions, instruction)

\* wallet?.publicKey?.toString() || wallet?.address
WalletAddress(w) ==
    IF TruthyString(w.publicKey) THEN w.publicKey
    ELSE IF TruthyString(w.address) THEN w.address
    ELSE None

\* 7. createSvmPaymentHeader up to the first on-chain read: feePayer, wallet
\* address, payTo and asset are validated, the two compute-budget
\* instructions are pushed
PrepareTransaction ==
    /\ pc = "buildHeader"
    /\ family = "svm"
    /\ LET req == The(selectedRequirements)
           fail(message) == Throw(wrapPaymentError(JsError(message))) /\ UNCHANGED header
       IN IF ~TruthyString(req.extra.feePayer)
          THEN fail("Missing facilitator feePayer in payment requirements (extra.feePayer).")
          ELSE IF WalletAddress(wallet) = None
          THEN fail("Missing connected Solana wallet address or publicKey")
          ELSE IF ~TruthyString(req.payTo)
          THEN fail("Missing payTo in payment requirements")
          ELSE IF ~TruthyString(req.asset)
          THEN fail("Missing token mint for SPL transfer")
          ELSE /\ header' = [header EXCEPT
                                !.payerKey = The(req.extra.feePayer),
                                !.userPubkey = The(WalletAddress(wallet)),
                                !.instructions = Push(Push(<<>>, SetComputeUnitLimit),
                                                    SetComputeUnitPrice)]
               /\ Goto("mintAccount")
    /\ UNCHANGED <<server, other, randomDraws, aside>>
    /\ UNCHANGED <<inputs, activeChain, effects, initialResponse, rawResponse, x402Version,
                   selectedRequirements, targetChainId, currentChainId, effectiveRpcUrl,
                   paymentHeader, retryResponse>>

\* owner of the mint account as the chain reports it; None: no such account
MintOwners == {None, Some(TOKEN_PROGRAM_ID), Some(TOKEN_2022_PROGRAM_ID)}

\* 7. await connection.getAccountInfo(mintPubkey): token-2022 when it owns
\* the mint, the legacy token program otherwise
ReadMintAccount ==
    /\ pc = "mintAccount"
    /\ chainReads' = chainReads + 1
    /\ \/ /\ Throw(wrapPaymentError(RpcError))
          /\ UNCHANGED header
       \/ \E owner \in MintOwners :
          /\ header' = [header EXCEPT
                           !.programId = IF owner = Some(TOKEN_2022_PROGRAM_ID)
                                         THEN TOKEN_2022_PROGRAM_ID ELSE TOKEN_PROGRAM_ID]
          /\ Goto("getMint")
    /\ UNCHANGED <<server, other, randomDraws, aside>>
    /\ UNCHANGED <<inputs, activeChain, requests, walletCalls, initialResponse, rawResponse,
                   x402Version, selectedRequirements, targetChainId, currentChainId,
                   effectiveRpcUrl, paymentHeader, retryResponse>>

TokenAccountNotFoundError ==
    [JsError("") EXCEPT !.name = "TokenAccountNotFoundError"]

\* 7. await getMint(connection, mintPubkey, undefined, programId)
ReadMint ==
    /\ pc = "getMint"
    /\ chainReads' = chainReads + 1
    /\ \/ \E e \in {RpcError, TokenAccountNotFoundError} :
          /\ Throw(wrapPaymentError(e))
          /\ UNCHANGED header
       \/ \E decimals \in {6} :
          /\ header' = [header EXCEPT !.decimals = decimals]
          /\ Goto("sourceAta")
    /\ UNCHANGED <<server, other, randomDraws, aside>>
    /\ UNCHANGED <<inputs, activeChain, requests, walletCalls, initialResponse, rawResponse,
                   x402Version, selectedRequirements, targetChainId, currentChainId,
                   effectiveRpcUrl, paymentHeader, retryResponse>>

MissingSourceAtaError(asset) ==
    JsError("User does not have an Associated Token Account for " \o asset
            \o ". Please create one first or ensure you have the required token.")

MissingDestinationAtaError(asset) ==
    JsError("Destination does not have an Associated Token Account for " \o asset
            \o ". The receiver must create their token account before receiving payments.")

\* what connection.getAccountInfo resolves to: null when the account does
\* not exist ("" in a header: not read yet)
AccountInfos == {"null", "account"}

\* an account taken to exist without looking at the answer
AccountAssumed(info) == TRUE

\* !sourceAtaInfo, !destAtaInfo: the negation of the test that throws
AccountExists(info) == info # "null"

\* 7. await connection.getAccountInfo(sourceAta): the user's account must exist
CheckSourceAta ==
    /\ pc = "sourceAta"
    /\ chainReads' = chainReads + 1
    /\ \/ /\ Throw(wrapPaymentError(RpcError))
          /\ UNCHANGED header
       \/ \E info \in AccountInfos :
          /\ header' = [header EXCEPT !.sourceAtaInfo = info]
          /\ IF ~AccountExists(info)
             THEN Throw(wrapPaymentError(
                      MissingSourceAtaError(The(The(selectedRequirements).asset))))
             ELSE Goto("destinationAta")
    /\ UNCHANGED <<server, other, randomDraws, aside>>
    /\ UNCHANGED <<inputs, activeChain, requests, walletCalls, initialResponse, rawResponse,
                   x402Version, selectedRequirements, targetChainId, currentChainId,
                   effectiveRpcUrl, paymentHeader, retryResponse>>

\* 7. await connection.getAccountInfo(destinationAta): the receiver's account
\* must exist; then the TransferChecked instruction is pushed
CheckDestinationAta ==
    /\ pc = "destinationAta"
    /\ chainReads' = chainReads + 1
    /\ LET req == The(selectedRequirements)
           mint == The(req.asset)
           sourceAta == AssociatedTokenAddress(mint, header.userPubkey, header.programId)
           destinationAta == AssociatedTokenAddress(mint, The(req.payTo), header.programId)
       IN \/ /\ Throw(wrapPaymentError(RpcError))
             /\ UNCHANGED header
          \/ \E info \in AccountInfos :
             IF ~AccountExists(info)
             THEN /\ Throw(wrapPaymentError(MissingDestinationAtaError(mint)))
                  /\ header' = [header EXCEPT !.destAtaInfo = info]
             ELSE IF BigInt(req.maxAmountRequired) = None
             THEN /\ Throw(wrapPaymentError(BigIntSyntaxError(req.maxAmountRequired)))
                  /\ header' = [header EXCEPT !.destAtaInfo = info]
             ELSE /\ header' = [header EXCEPT
                                   !.destAtaInfo = info,
                                   !.instructions =
                                   Push(@, TransferChecked(
                                       sourceAta, mint, destinationAta, header.userPubkey,
                                       The(BigInt(req.maxAmountRequired)), header.decimals,
                                       header.programId))]
                  /\ Goto("blockhash")
    /\ UNCHANGED <<server, other, randomDraws, aside>>
    /\ UNCHANGED <<inputs, activeChain, requests, walletCalls, initialResponse, rawResponse,
                   x402Version, selectedRequirements, targetChainId, currentChainId,
                   effectiveRpcUrl, paymentHeader, retryResponse>>

Blockhashes == {"BLOCKHASH1", "BLOCKHASH2"}

\* 7. await connection.getLatestBlockhash(); the message is compiled with the
\* facilitator as payer; a wallet without signTransaction is refused
ReadBlockhash ==
    /\ pc = "blockhash"
    /\ chainReads' = chainReads + 1
    /\ \/ /\ Throw(wrapPaymentError(RpcError))
          /\ UNCHANGED header
       \/ \E blockhash \in Blockhashes :
          /\ header' = [header EXCEPT !.blockhash = blockhash]
          /\ IF ~wallet.signTransaction
             THEN Throw(wrapPaymentError(JsError(
                        "Connected wallet does not support signTransaction")))
             ELSE Goto("signTransaction")
    /\ UNCHANGED <<server, other, randomDraws, aside>>
    /\ UNCHANGED <<inputs, activeChain, requests, walletCalls, initialResponse, rawResponse,
                   x402Version, selectedRequirements, targetChainId, currentChainId,
                   effectiveRpcUrl, paymentHeader, retryResponse>>

\* the message compiled with the user as payer
TransactionPaidByUser(h) ==
    [instructions |-> h.instructions, payerKey |-> h.userPubkey,
     recentBlockhash |-> h.blockhash]

\* new VersionedTransaction(new TransactionMessage({payerKey, recentBlockhash,
\* instructions}).compileToV0Message())
Transaction(h) ==
    [instructions |-> h.instructions, payerKey |-> h.payerKey,
     recentBlockhash |-> h.blockhash]

\* paymentPayload of the SVM builder
SvmHeaderPayload(version, req, serializedTransaction) ==
    [network |-> req.network, scheme |-> req.scheme, x402Version |-> version,
     payload |-> [transaction |-> serializedTransaction]]

\* 7. await wallet.signTransaction(transaction), then serialize and encode
SignTransaction ==
    /\ pc = "signTransaction"
    /\ \/ \E signature \in Signatures :
          /\ walletCalls' = Append(walletCalls,
                                   WalletAnswer("signTransaction", header.blockhash, signature))
          /\ paymentHeader' = Some(EncodeHeader(SvmHeaderPayload(
                                  x402Version, The(selectedRequirements),
                                  [base64 |-> [signature |-> signature,
                                               transaction |-> Transaction(header)]])))
          /\ Goto("retry")
       \/ \E e \in WalletErrors :
          /\ walletCalls' = Append(walletCalls,
                                   WalletCall("signTransaction", header.blockhash, Some(e)))
          /\ Throw(wrapPaymentError(e))
          /\ UNCHANGED paymentHeader
    /\ UNCHANGED <<server, other, randomDraws, aside>>
    /\ UNCHANGED <<inputs, activeChain, requests, chainReads, initialResponse, rawResponse,
                   x402Version, selectedRequirements, targetChainId, currentChainId,
                   effectiveRpcUrl, header, retryResponse>>

\* ------------------------------------------------------------------------
\* Steps 10 and 11 (the same in both handlers)
\* ------------------------------------------------------------------------

\* {...(requestInit?.headers || {})}: object spread copies the own enumerable
\* properties; a plain object has one per header, a Headers instance has none
SpreadHeaders(h) == IF h.form = "object" THEN h.entries ELSE {}

\* {...(requestInit?.headers || {}), "X-PAYMENT": ..., "Access-Control-Expose-Headers": ...}
RetryHeaders(init, paymentHdr) ==
    { h \in SpreadHeaders(init.headers) :
          h[1] \notin {"X-PAYMENT", "Access-Control-Expose-Headers"} }
    \cup { <<"X-PAYMENT", paymentHdr>>,
           <<"Access-Control-Expose-Headers", "X-PAYMENT-RESPONSE">> }

\* 10. Retry with payment header
RetryRequest ==
    /\ pc = "retry"
    /\ requests' = Append(requests, Request(Endpoint, MethodOf(requestInit), requestInit.body,
                                            RetryHeaders(requestInit, The(paymentHeader))))
    /\ \/ /\ Throw(FetchError)
          /\ UNCHANGED retryResponse
       \/ \E r \in RetryResponsesOf(server) :
            /\ retryResponse' = Some(r)
            /\ Goto("checkRetry")
    /\ UNCHANGED <<server, other, randomDraws, aside>>
    /\ UNCHANGED <<inputs, activeChain, walletCalls, chainReads, initialResponse, rawResponse,
                   x402Version, selectedRequirements, targetChainId, currentChainId,
                   effectiveRpcUrl, header, paymentHeader>>

\* the catch of step 11 without its instanceof test: every error is swallowed
CheckRetrySwallows ==
    /\ pc = "checkRetry"
    /\ Return(The(retryResponse))
    /\ UNCHANGED <<server, other, randomDraws, aside>>
    /\ UNCHANGED <<inputs, activeChain, effects, locals>>

\* step 11 without its try: a body that does not parse is thrown
CheckRetryParseThrows ==
    /\ pc = "checkRetry"
    /\ LET r == The(retryResponse)
       IN IF r.status = 402 /\ r.body = None
          THEN Throw(JsonError)
          ELSE IF r.status = 402 /\ IsPaymentError(The(r.body).error)
          THEN Throw(BackendError(family, The(The(r.body).error)))
          ELSE Return(r)
    /\ UNCHANGED <<server, other, randomDraws, aside>>
    /\ UNCHANGED <<inputs, activeChain, effects, locals>>

\* a retry answered 402 is paid again
CheckRetryPayAgain ==
    /\ pc = "checkRetry"
    /\ LET r == The(retryResponse)
       IN IF r.status = 402 THEN Goto("buildHeader") ELSE Return(r)
    /\ UNCHANGED <<server, other, randomDraws, aside>>
    /\ UNCHANGED <<inputs, activeChain, effects, locals>>

\* 11. A retry answered 402 with a backend error outside IGNORED_ERRORS is
\* thrown; a body that does not parse is not
CheckRetry ==
    /\ pc = "checkRetry"
    /\ LET r == The(retryResponse)
       IN IF r.status = 402 /\ r.body # None /\ IsPaymentError(The(r.body).error)
          THEN Throw(BackendError(family, The(The(r.body).error)))
          ELSE Return(r)
    /\ UNCHANGED <<server, other, randomDraws, aside>>
    /\ UNCHANGED <<inputs, activeChain, effects, locals>>

Next ==
    \/ InitialRequest
    \/ ParseRequirements
    \/ SelectRequirement
    \/ CheckAmount
    \/ ResolveTargetChain
    \/ GetCurrentChainId
    \/ FailUnswitchable
    \/ RequiredSwitch
    \/ BestEffortSwitch
    \/ NoSwitch
    \/ BuildAuthorization
    \/ SignTypedData
    \/ ResolveRpcUrl
    \/ PrepareTransaction
    \/ ReadMintAccount
    \/ ReadMint
    \/ CheckSourceAta
    \/ CheckDestinationAta
    \/ ReadBlockhash
    \/ SignTransaction
    \/ RetryRequest
    \/ CheckRetry

Spec == Init /\ [][Next]_vars

\* ------------------------------------------------------------------------
\* Two calls in flight
\* ------------------------------------------------------------------------

\* Everything a call of a handler owns: its arguments, its position, what it
\* has done and its locals. The wallet's chain, the server and the random
\* generator are outside the call.
Self ==
    [x402Version |-> x402Version, family |-> family, config |-> config,
     requestInit |-> requestInit, wallet |-> wallet, pc |-> pc,
     requests |-> requests, walletCalls |-> walletCalls,
     chainReads |-> chainReads, initialResponse |-> initialResponse,
     rawResponse |-> rawResponse,
     selectedRequirements |-> selectedRequirements,
     targetChainId |-> targetChainId, currentChainId |-> currentChainId,
     effectiveRpcUrl |-> effectiveRpcUrl, header |-> header,
     paymentHeader |-> paymentHeader, retryResponse |-> retryResponse,
     returned |-> returned, thrown |-> thrown, failedAt |-> failedAt]

\* a call that has not made its first request yet
NewCall(fam, cfg, init, w) ==
    [x402Version |-> 0, family |-> fam, config |-> cfg, requestInit |-> init,
     wallet |-> w, pc |-> "initialRequest", requests |-> <<>>, walletCalls |-> <<>>,
     chainReads |-> 0, initialResponse |-> None, rawResponse |-> None,
     selectedRequirements |-> None, targetChainId |-> 0, currentChainId |-> None,
     effectiveRpcUrl |-> None, header |-> NoHeader, paymentHeader |-> None,
     retryResponse |-> None, returned |-> None, thrown |-> None, failedAt |-> ""]

\* the calls in flight: the one that runs and the suspended one
Calls == {Self} \cup other

\* At an await the event loop may continue with the other call: the running
\* call is suspended with all it owns and the suspended one runs on from
\* where it stopped. The other call may take over after any step, which
\* covers every await of the handlers and of the header builders.
Resume ==
    /\ IsSome(other)
    /\ other' = Some(Self)
    /\ LET call == The(other)
       IN
       /\ family' = call.family
       /\ config' = call.config
       /\ requestInit' = call.requestInit
       /\ wallet' = call.wallet
       /\ pc' = call.pc
       /\ requests' = call.requests
       /\ walletCalls' = call.walletCalls
       /\ chainReads' = call.chainReads
       /\ initialResponse' = call.initialResponse
       /\ rawResponse' = call.rawResponse
       /\ x402Version' = call.x402Version
       /\ selectedRequirements' = call.selectedRequirements
       /\ targetChainId' = call.targetChainId
       /\ currentChainId' = call.currentChainId
       /\ effectiveRpcUrl' = call.effectiveRpcUrl
       /\ header' = call.header
       /\ paymentHeader' = call.paymentHeader
       /\ retryResponse' = call.retryResponse
       /\ returned' = call.returned
       /\ thrown' = call.thrown
       /\ failedAt' = call.failedAt
    /\ UNCHANGED <<server, randomDraws, activeChain, aside>>

\* the first call: an EVM call with a wallet of any capabilities or a
\* Solana call
FirstCalls ==
    { NewCall("evm", [maxPaymentAmount |-> None, rpcUrl |-> None], init, w) :
          init \in { i \in RequestInits : i.headers.form = "undefined" }, w \in EvmWallets }
    \cup { NewCall("svm", [maxPaymentAmount |-> None, rpcUrl |-> None], init, w) :
              init \in { i \in RequestInits : i.headers.form = "undefined" },
              w \in { SvmWallet(None, Some("UserSol"), TRUE) } }

\* the second call: of either family, an EVM one through a wallet that
\* neither reports nor switches its chain
SecondCalls ==
    { c \in FirstCalls : c.family = "evm" => ~c.wallet.getChainId /\ ~c.wallet.switchChain }

InitTwoCalls ==
    /\ server = "offers"
    /\ evaluation = None
    /\ IdleApart
    /\ randomDraws = 0
    /\ activeChain = 1
    /\ \E first \in FirstCalls, second \in SecondCalls :
       /\ other = Some(second)
       /\ family = first.family
       /\ config = first.config
       /\ requestInit = first.requestInit
       /\ wallet = first.wallet
       /\ pc = first.pc
       /\ requests = first.requests
       /\ walletCalls = first.walletCalls
       /\ chainReads = first.chainReads
       /\ initialResponse = first.initialResponse
       /\ rawResponse = first.rawResponse
       /\ x402Version = first.x402Version
       /\ selectedRequirements = first.selectedRequirements
       /\ targetChainId = first.targetChainId
       /\ currentChainId = first.currentChainId
       /\ effectiveRpcUrl = first.effectiveRpcUrl
       /\ header = first.header
       /\ paymentHeader = first.paymentHeader
       /\ retryResponse = first.retryResponse
       /\ returned = first.returned
       /\ thrown = first.thrown
       /\ failedAt = first.failedAt

NextTwoCalls == Next \/ Resume

SpecTwoCalls == InitTwoCalls /\ [][NextTwoCalls]_vars

\* ------------------------------------------------------------------------
\* Two payments through the wallet of makePayment
\* ------------------------------------------------------------------------

\* the wallet makePayment builds around the browser's provider: it signs,
\* reports its chain and switches it
MakePaymentWallet ==
    [getChainId |-> TRUE, address |-> Some("0xUSER"), publicKey |-> None,
     switchChain |-> TRUE, signTransaction |-> FALSE]

\* handleEvmPayment(fullEndpoint, {wallet, network: 'base'}), no requestInit
MakePaymentCall ==
    NewCall("evm", [maxPaymentAmount |-> None, rpcUrl |-> None],
            [body |-> None, method |-> None, headers |-> HeadersInit("undefined", {})],
            MakePaymentWallet)

\* the chains the provider may be on when the payments start: one that no
\* offer names and one that an offer names
ProviderChains == {1, 84532}

\* the call that runs is the given one
Running(call) ==
    /\ family = call.family
    /\ config = call.config
    /\ requestInit = call.requestInit
    /\ wallet = call.wallet
    /\ pc = call.pc
    /\ requests = call.requests
    /\ walletCalls = call.walletCalls
    /\ chainReads = call.chainReads
    /\ initialResponse = call.initialResponse
    /\ rawResponse = call.rawResponse
    /\ x402Version = call.x402Version
    /\ selectedRequirements = call.selectedRequirements
    /\ targetChainId = call.targetChainId
    /\ currentChainId = call.currentChainId
    /\ effectiveRpcUrl = call.effectiveRpcUrl
    /\ header = call.header
    /\ paymentHeader = call.paymentHeader
    /\ retryResponse = call.retryResponse
    /\ returned = call.returned
    /\ thrown = call.thrown
    /\ failedAt = call.failedAt

\* makePayment was called twice before either payment finished: two calls
\* of handleEvmPayment share the provider and its active chain
InitSharedWallet ==
    /\ server = "offers"
    /\ evaluation = None
    /\ IdleApart
    /\ randomDraws = 0
    /\ activeChain \in ProviderChains
    /\ other = Some(MakePaymentCall)
    /\ Running(MakePaymentCall)

\* the steps of handleEvmPayment on a wallet that can switch, and the
\* event loop
NextSharedWallet ==
    \/ InitialRequest
    \/ ParseRequirements
    \/ SelectRequirement
    \/ CheckAmount
    \/ ResolveTargetChain
    \/ GetCurrentChainId
    \/ RequiredSwitch
    \/ BestEffortSwitch
    \/ NoSwitch
    \/ BuildAuthorization
    \/ SignTypedData
    \/ RetryRequest
    \/ CheckRetry
    \/ Resume

SpecSharedWallet == InitSharedWallet /\ [][NextSharedWallet]_vars

\* no payment flow runs: the flow variables hold a call that never starts
IdleFlow ==
    /\ server = "any"
    /\ randomDraws = 0
    /\ other = None
    /\ activeChain = 1
    /\ Running(MakePaymentCall)

\* ------------------------------------------------------------------------
\* The exported functions, called on their own
\* ------------------------------------------------------------------------

\* network names a caller may pass: the names of both tables, other
\* spellings of them, names of no table, the empty name and names that
\* every object inherits
NetworkNames ==
    EvmNetworkSchema \cup SolanaNetworkSchema
    \cup {"Base", "BASE-SEPOLIA", "Solana", "Solana-Devnet", "near", "bsc", "solana-testnet",
           "mainnet", ""}
    \cup InheritedKeys

\* fn(input) was called; outcome is None when it threw, Some(value) when it
\* returned value
Evaluate(fn, input, outcome) ==
    /\ evaluation' = Some([fn |-> fn, input |-> input, outcome |-> outcome])
    /\ UNCHANGED <<flow, apart>>

LookupChainIdFromNetwork ==
    \E network \in NetworkNames :
        Evaluate("getChainIdFromNetwork", network, getChainIdFromNetwork(network))

LookupChainId ==
    \E network \in NetworkNames : Evaluate("getChainId", network, getChainId(network))

LookupSolanaRpcUrl ==
    \E network \in NetworkNames :
        Evaluate("getDefaultSolanaRpcUrl", network, getDefaultSolanaRpcUrl(network))

\* messages of raw errors: none, one phrase of each rule, phrases in another
\* case, phrases of several rules at once, and text of no rule
RawMessages ==
    { "",
      "User rejected the request.",
      "MetaMask Tx Signature: User denied transaction signature.",
      "user rejected action (ethers-user-denied)",
      "Provided chainId \"8453\" must match the active chainId \"1\"",
      "chainId does not match",
      "wrong chain 1, expected chain 8453: chainId must match",
      "Network mismatch: wallet is on Ethereum",
      "Wrong network",
      "Wallet is locked",
      "account locked",
      "Locked",
      "insufficient funds for gas",
      "insufficient token balance",
      "Insufficient funds",
      "Failed to switch network",
      "cannot switch chain",
      "Wallet not connected",
      "No wallet found",
      "No suitable evm payment requirements found",
      "Missing payTo address in payment requirements",
      "Payment amount 5 exceeds maximum allowed 1",
      "invalid signature",
      "Failed to sign typed data",
      "execution reverted",
      "timeout of 3000ms",
      "User rejected: Wallet is locked",
      "Network mismatch: account locked",
      "locked: insufficient funds",
      "insufficient balance: Failed to switch",
      "switch chain: not connected",
      "No wallet: Missing asset",
      "payment requirements: exceeds maximum",
      "exceeds maximum: signature",
      "chainId does not match: Wrong network, user denied",
      "design of locked signature exceeds maximum funds, insufficient" }

\* error.code of raw errors
RawCodes ==
    { NoCode, CodeNum(4001), CodeStr("ACTION_REJECTED"), CodeStr("UNKNOWN_ERROR"),
      CodeNum(0 - 32603) }

\* the values handed to parsePaymentError: null or undefined, error objects
\* with a string message, a PaymentOperationError classified before, and
\* objects whose message is no string
RawErrors ==
    {NullError}
    \cup { ProviderError(code, message) : code \in RawCodes, message \in RawMessages }
    \cup { PaymentOperationError(parsePaymentError(JsError(message))) :
               message \in {"", "Wallet is locked", "timeout of 3000ms"} }
    \cup { ObjectError(code, messageType) :
               code \in RawCodes, messageType \in {"number", "object"} }

ClassifyError ==
    \E error \in RawErrors :
        Evaluate("parsePaymentError", error, parsePaymentErrorCall(error))

\* no flow runs while the functions are called
InitFunctions ==
    /\ evaluation = None
    /\ IdleApart
    /\ server = "any"
    /\ randomDraws = 0
    /\ other = None
    /\ activeChain = 1
    /\ LET idle == NewCall("evm", [maxPaymentAmount |-> None, rpcUrl |-> None],
                           [body |-> None, method |-> None,
                            headers |-> HeadersInit("undefined", {})],
                           CHOOSE w \in EvmWallets : w.getChainId /\ w.switchChain)
       IN
       /\ family = idle.family
       /\ config = idle.config
       /\ requestInit = idle.requestInit
       /\ wallet = idle.wallet
       /\ pc = idle.pc
       /\ requests = idle.requests
       /\ walletCalls = idle.walletCalls
       /\ chainReads = idle.chainReads
       /\ initialResponse = idle.initialResponse
       /\ rawResponse = idle.rawResponse
       /\ x402Version = idle.x402Version
       /\ selectedRequirements = idle.selectedRequirements
       /\ targetChainId = idle.targetChainId
       /\ currentChainId = idle.currentChainId
       /\ effectiveRpcUrl = idle.effectiveRpcUrl
       /\ header = idle.header
       /\ paymentHeader = idle.paymentHeader
       /\ retryResponse = idle.retryResponse
       /\ returned = idle.returned
       /\ thrown = idle.thrown
       /\ failedAt = idle.failedAt

NextFunctions ==
    \/ LookupChainIdFromNetwork
    \/ LookupChainId
    \/ LookupSolanaRpcUrl
    \/ ClassifyError

SpecFunctions == InitFunctions /\ [][NextFunctions]_vars

\* ------------------------------------------------------------------------
\* retryWithBackoff
\* ------------------------------------------------------------------------

\* largest maxRetries a caller passes
MaxRetries == 3

\* baseDelay in milliseconds
BaseDelays == {0, 250, 1000}

\* what one call of fn settles with: a value, or one of two errors
FnOutcomes ==
    { [error |-> "", value |-> "value", ok |-> TRUE],
      [error |-> "first error", value |-> "", ok |-> FALSE],
      [error |-> "second error", value |-> "", ok |-> FALSE] }

\* 2^n
RECURSIVE Pow2(_)
Pow2(n) == IF n = 0 THEN 1 ELSE 2 * Pow2(n - 1)

\* the delay that does not grow
DelayConstant(baseDelay, i) == baseDelay

\* baseDelay * Math.pow(2, i)
Delay(baseDelay, i) == baseDelay * Pow2(i)

\* retryWithBackoff(fn, maxRetries, baseDelay) is called
InitRetry ==
    /\ evaluation = None
    /\ IdleFlow
    /\ IdleStore
    /\ \E maxRetries \in 0..MaxRetries, baseDelay \in BaseDelays :
          backoff = [NoBackoff EXCEPT !.maxRetries = maxRetries,
                                      !.baseDelay = baseDelay, !.pc = "loop"]

\* one round of the loop up to its next await: `return await fn()`, and on
\* a rejection the catch, which remembers the error and decides to sleep
CallFn ==
    /\ backoff.pc = "loop"
    /\ backoff.i < backoff.maxRetries
    /\ \E outcome \in FnOutcomes :
          IF outcome.ok
          THEN backoff' = [backoff EXCEPT !.attempts = Append(@, outcome),
                                          !.pc = "returned",
                                          !.settled = Some(outcome.value)]
          ELSE backoff' = [backoff EXCEPT !.attempts = Append(@, outcome),
                                          !.lastError = Some(outcome.error),
                                          !.pc = IF backoff.i < backoff.maxRetries - 1
                                                 THEN "sleep" ELSE "loop",
                                          !.i = IF backoff.i < backoff.maxRetries - 1
                                                THEN @ ELSE @ + 1]
    /\ UNCHANGED <<flow, evaluation, store>>

\* await sleep(delay), then i++
Sleep ==
    /\ backoff.pc = "sleep"
    /\ backoff' = [backoff EXCEPT !.sleeps = Append(@, Delay(backoff.baseDelay, backoff.i)),
                                  !.i = @ + 1, !.pc = "loop"]
    /\ UNCHANGED <<flow, evaluation, store>>

\* the loop is over: throw lastError, undefined when fn was never called
ThrowLastError ==
    /\ backoff.pc = "loop"
    /\ backoff.i >= backoff.maxRetries
    /\ backoff' = [backoff EXCEPT !.pc = "thrown", !.settled = backoff.lastError]
    /\ UNCHANGED <<flow, evaluation, store>>

NextRetry ==
    \/ CallFn
    \/ Sleep
    \/ ThrowLastError

SpecRetry == InitRetry /\ [][NextRetry]_vars

\* ------------------------------------------------------------------------
\* Properties
\* ------------------------------------------------------------------------

\* positions in the call log of the calls of one wallet method
CallsOf(op) == { i \in 1..Len(walletCalls) : walletCalls[i].op = op }

\* positions of the signature requests of either family
SignCalls == CallsOf("signTypedData") \cup CallsOf("signTransaction")

\* C1: when the initial response status is not 402 the call returns that
\* same response, and the run has no wallet operation, no on-chain read and
\* no second HTTP request.
C1_NonPaymentPassThrough ==
    (IsSome(initialResponse) /\ The(initialResponse).status # 402) =>
        /\ pc = "done"
        /\ returned = initialResponse
        /\ thrown = None
        /\ walletCalls = <<>>
        /\ chainReads = 0
        /\ Len(requests) = 1

C1_Witness ==
    /\ pc = "done"
    /\ IsSome(initialResponse)
    /\ The(initialResponse).status = 500
    /\ returned = initialResponse

\* C2: in every run the wallet is asked to sign at most once and the
\* endpoint is requested at most twice; once the retry is sent the flow is at
\* the retry check or has ended, also when the retry answers 402 again.
C2_SingleAttempt ==
    /\ Cardinality(SignCalls) <= 1
    /\ Len(requests) <= 2
    /\ Len(requests) = 2 => pc \in {"checkRetry", "done", "failed"}

C2_Witness ==
    /\ Len(requests) = 2
    /\ Cardinality(SignCalls) = 1
    /\ IsSome(retryResponse)
    /\ The(retryResponse).status = 402
    /\ pc \in {"done", "failed"}

\* the error string of the 402 body that step 2 has just parsed
C3_Error ==
    IF pc = "parseBody" /\ The(initialResponse).body # None
    THEN The(The(initialResponse).body).error
    ELSE None

C3_Sentinels ==
    {"X-PAYMENT header is required", "missing X-PAYMENT header", "payment_required"}

\* C3: on an initial 402 whose body carries an error string, a sentinel
\* string lets the flow continue to requirement selection; any other
\* non-empty string ends the flow in failure with no requirement selected,
\* no wallet operation and no retry request, and a failed flow takes no
\* further step.
C3_BackendErrorTerminates ==
    [][ /\ (IsSome(C3_Error) /\ The(C3_Error) \in C3_Sentinels) =>
            (pc' = "select" /\ thrown' = None)
        /\ (IsSome(C3_Error) /\ The(C3_Error) # "" /\ The(C3_Error) \notin C3_Sentinels) =>
            /\ pc' = "failed"
            /\ IsSome(thrown')
            /\ selectedRequirements' = None
            /\ walletCalls' = <<>>
            /\ chainReads' = 0
            /\ Len(requests') = 1
        /\ pc # "failed" ]_vars

C3_Witness ==
    /\ pc = "failed"
    /\ failedAt = "parseBody"
    /\ IsSome(rawResponse)
    /\ The(rawResponse).error = Some("insufficient_funds")
    /\ The(thrown).name = "PaymentOperationError"
    /\ selectedRequirements = None

\* the EVM wallet has reported a chain id and step 8 has run
C4_ChainReported ==
    family = "evm" /\ IsSome(currentChainId) /\ pc # "switchChain"

\* C4: when the wallet reports a current chain id different from the
\* selected requirement's chain id and has no switchChain, the flow fails
\* with NETWORK_MISMATCH, signTypedData is never called and no retry request
\* is sent.
C4_UnswitchableMismatchFails ==
    (C4_ChainReported /\ The(currentChainId) # targetChainId /\ ~wallet.switchChain) =>
        /\ pc = "failed"
        /\ The(thrown).code = CodeStr("NETWORK_MISMATCH")
        /\ CallsOf("signTypedData") = {}
        /\ Len(requests) = 1

\* C5: whenever the wallet reports a current chain id: if it equals the
\* target chain id switchChain is never called; if it differs and the wallet
\* has switchChain, switchChain is called once with the target chain id and
\* signTypedData is requested only after that call has resolved.
C5_SwitchBeforeSign ==
    C4_ChainReported =>
        /\ The(currentChainId) = targetChainId => CallsOf("switchChain") = {}
        /\ (The(currentChainId) # targetChainId /\ wallet.switchChain) =>
            /\ Cardinality(CallsOf("switchChain")) = 1
            /\ \A i \in CallsOf("switchChain") :
                  walletCalls[i].arg = "0x" \o NumToString(targetChainId, 16)
            /\ \A j \in CallsOf("signTypedData") :
                  \E i \in CallsOf("switchChain") :
                      i < j /\ walletCalls[i].error = None

\* the switch that step 8 requires (reported chain id truthy and different
\* from the target) was made and rejected
C6_RequiredSwitchFailed ==
    /\ C4_ChainReported
    /\ The(currentChainId) # 0
    /\ The(currentChainId) # targetChainId
    /\ \E i \in CallsOf("switchChain") : walletCalls[i].error # None

\* the rejection of that switch
C6_SwitchRejection ==
    The(walletCalls[CHOOSE i \in CallsOf("switchChain") : walletCalls[i].error # None].error)

\* the rejection is the user declining (EIP-1193 code 4001)
C6_Declined == C6_SwitchRejection.code = CodeNum(4001)

C7_BestEffortSwitchContinues ==
    [][ (pc = "switchChain" /\ currentChainId = None) =>
            /\ pc' = "buildHeader"
            /\ thrown' = None
            /\ IF wallet.switchChain
               THEN /\ Len(walletCalls') = Len(walletCalls) + 1
                    /\ SubSeq(walletCalls', 1, Len(walletCalls)) = walletCalls
                    /\ walletCalls'[Len(walletCalls')].op = "switchChain"
                    /\ walletCalls'[Len(walletCalls')].arg =
                           "0x" \o NumToString(targetChainId, 16)
                    /\ Cardinality({ i \in 1..Len(walletCalls') :
                                        walletCalls'[i].op = "switchChain" }) = 1
               ELSE walletCalls' = walletCalls ]_vars

C7_Witness ==
    /\ family = "evm"
    /\ currentChainId = None
    /\ Len(walletCalls) >= 2
    /\ walletCalls[Len(walletCalls) - 1].op = "switchChain"
    /\ walletCalls[Len(walletCalls) - 1].error # None
    /\ walletCalls[Len(walletCalls)].op = "signTypedData"

\* digit i of a decimal numeral
C8_Digit(s, i) == IndexIn("0123456789", SubSeq(s, i, i)) - 1

\* a > b for the integers two decimal numerals without leading zeros denote
C8_Exceeds(a, b) ==
    \/ Len(a) > Len(b)
    \/ /\ Len(a) = Len(b)
       /\ \E i \in 1..Len(a) :
             /\ C8_Digit(a, i) > C8_Digit(b, i)
             /\ \A j \in 1..(i - 1) : C8_Digit(a, j) = C8_Digit(b, j)

\* a requirement is selected and step 5 has run
C8_Checked == IsSome(selectedRequirements) /\ pc # "checkAmount"

\* what C8 asks of a flow whose ceiling is The(config.maxPaymentAmount)
C8_Enforced ==
    LET required == The(selectedRequirements).maxAmountRequired
        ceiling == The(config.maxPaymentAmount)
    IN IF C8_Exceeds(required, ceiling)
       THEN /\ pc = "failed"
            /\ failedAt = "checkAmount"
            /\ The(thrown).message =
                   "Payment amount " \o required \o " exceeds maximum allowed " \o ceiling
            /\ parsePaymentError(The(thrown)).code = "AMOUNT_EXCEEDED"
            /\ walletCalls = <<>>
            /\ chainReads = 0
            /\ Len(requests) = 1
       ELSE failedAt # "checkAmount"

\* C8 as stated: whenever the caller supplies a ceiling, a required amount
\* that exceeds it (as exact integers) fails the flow with the
\* amount-exceeded error before any wallet operation and any retry request,
\* and a required amount that does not exceed it lets the flow proceed.
C8_AnyCeilingEnforced ==
    (C8_Checked /\ IsSome(config.maxPaymentAmount)) => C8_Enforced

\* C8, amended: the same whenever the caller supplies a ceiling greater
\* than zero.
C8_PositiveCeilingEnforced ==
    (C8_Checked /\ IsSome(config.maxPaymentAmount)
                /\ The(config.maxPaymentAmount) # "0") => C8_Enforced

C8_Witness ==
    /\ pc = "failed"
    /\ failedAt = "checkAmount"
    /\ config.maxPaymentAmount = Some("999999999999999999")
    /\ The(selectedRequirements).maxAmountRequired = "1000000000000000000"

\* the known-network set of a chain family
C9_KnownNetworks ==
    IF family = "evm"
    THEN {"ethereum", "sepolia", "base", "base-sepolia", "polygon", "arbitrum", "optimism"}
    ELSE {"solana-devnet", "solana", "solana-mainnet"}

\* the entry has scheme exact and a network of the family (case ignored)
C9_Matches(req) ==
    req.scheme = "exact" /\ ToLowerCase(req.network) \in C9_KnownNetworks

\* the accepts list of the parsed 402 body, empty when missing
C9_Accepts ==
    IF IsSome(The(rawResponse).accepts) THEN The(The(rawResponse).accepts) ELSE <<>>

\* step 4 has run on the parsed body
C9_Selected ==
    /\ IsSome(rawResponse)
    /\ pc = "checkAmount" \/ (pc = "failed" /\ failedAt \in {"select", "checkAmount"})

\* C9: selection returns the first entry of the accepts list, in the
\* server's order, whose scheme is exact and whose network is of the target
\* family; every entry before it does not match, and nothing is selected
\* only when no entry matches.
C9_FirstMatchSelected ==
    C9_Selected =>
        LET matches == { i \in 1..Len(C9_Accepts) : C9_Matches(C9_Accepts[i]) }
        IN IF matches = {} THEN selectedRequirements = None
           ELSE \E i \in matches :
                  /\ selectedRequirements = Some(C9_Accepts[i])
                  /\ \A j \in 1..(i - 1) : j \notin matches

C9_Witness ==
    /\ C9_Selected
    /\ pc = "checkAmount"
    /\ Len(C9_Accepts) = 2
    /\ ~C9_Matches(C9_Accepts[1])
    /\ C9_Matches(C9_Accepts[2])
    /\ selectedRequirements = Some(C9_Accepts[2])

\* the first response is a 402 whose body parsed, none of its entries
\* matches, and steps 2 to 4 are over
C10_NothingSuitable ==
    /\ IsSome(rawResponse)
    /\ pc \notin {"parseBody", "select"}
    /\ \A i \in 1..Len(C9_Accepts) : ~C9_Matches(C9_Accepts[i])

\* the flow ended with the no-suitable-requirement error and did nothing else
C10_FailedUnsuitable ==
    /\ pc = "failed"
    /\ The(thrown).message = (IF family = "evm"
                              THEN "No suitable EVM payment requirements found"
                              ELSE "No suitable Solana payment requirements found")
    /\ selectedRequirements = None
    /\ walletCalls = <<>>
    /\ chainReads = 0
    /\ Len(requests) = 1

\* C10 as stated: for every 402 body whose accepts list (possibly empty or
\* missing) has no entry with scheme exact and a network of the family, the
\* flow fails with the no-suitable-requirement error and makes no wallet
\* operation and no retry request.
C10_EveryBodyFailsUnsuitable ==
    C10_NothingSuitable => C10_FailedUnsuitable

\* C10, amended: the same for every such 402 body whose error string is
\* absent, empty or one of the three sentinels.
C10_SelectionFailsUnsuitable ==
    (C10_NothingSuitable /\ (\/ The(rawResponse).error = None
                             \/ The(The(rawResponse).error) \in C3_Sentinels \cup {""}))
        => C10_FailedUnsuitable

C10_Witness ==
    /\ C10_NothingSuitable
    /\ Len(C9_Accepts) = 2
    /\ pc = "failed"
    /\ failedAt = "select"

\* the steps of createEvmPaymentHeader and createSvmPaymentHeader
C11_BuildSteps ==
    {"buildHeader", "signTypedData", "mintAccount", "getMint", "sourceAta",
     "destinationAta", "blockhash", "signTransaction"}

\* the codes of the classifier
C11_Codes ==
    {"USER_REJECTED", "USER_CANCELLED", "NETWORK_MISMATCH", "NETWORK_SWITCH_FAILED",
     "UNSUPPORTED_NETWORK", "CHAIN_ID_MISMATCH", "CHAIN_ID_UNAVAILABLE",
     "WALLET_NOT_CONNECTED", "WALLET_LOCKED", "INSUFFICIENT_BALANCE",
     "INVALID_PAYMENT_REQUIREMENTS", "AMOUNT_EXCEEDED", "SIGNATURE_FAILED",
     "UNKNOWN_ERROR"}

\* a PaymentOperationError with a code, a message and a user message
C11_Classified(error) ==
    /\ error.name = "PaymentOperationError"
    /\ error.code.type = "string"
    /\ error.code.str \in C11_Codes
    /\ error.message # ""
    /\ error.userMessage # ""

C12_RetryIsOriginalPlusPayment ==
    /\ Len(requests) >= 1 =>
            /\ requests[1].method =
                   (IF requestInit.method \notin {None, Some("")}
                    THEN The(requestInit.method) ELSE "POST")
            /\ \A h \in requests[1].headers :
                   h[1] \notin {"X-PAYMENT", "Access-Control-Expose-Headers"}
    /\ Len(requests) >= 2 =>
            /\ IsSome(paymentHeader)
            /\ requests[2].endpoint = requests[1].endpoint
            /\ requests[2].method = requests[1].method
            /\ requests[2].body = requests[1].body
            /\ requests[2].headers =
                   requests[1].headers
                   \cup { <<"X-PAYMENT", The(paymentHeader)>>,
                          <<"Access-Control-Expose-Headers", "X-PAYMENT-RESPONSE">> }

\* step 11 has run on a retry answered 402 whose body parsed and carries
\* an error string outside the sentinels
C13_RetryError ==
    /\ IsSome(retryResponse)
    /\ pc # "checkRetry"
    /\ The(retryResponse).status = 402
    /\ The(retryResponse).body # None
    /\ The(The(retryResponse).body).error # None
    /\ The(The(The(retryResponse).body).error) \notin C3_Sentinels

\* the flow ended by throwing a PaymentOperationError, not by returning
C13_Failed ==
    /\ pc = "failed"
    /\ failedAt = "checkRetry"
    /\ C11_Classified(The(thrown))
    /\ returned = None

\* C13 as stated: a retry answered 402 with a parsed body whose error
\* string is not a sentinel ends the flow by throwing a
\* PaymentOperationError; the response is not returned.
C13_AnyRetryErrorThrown == C13_RetryError => C13_Failed

\* C13, amended: the same when that error string is not empty.
C13_NonEmptyRetryErrorThrown ==
    (C13_RetryError /\ The(The(The(retryResponse).body).error) # "") => C13_Failed

C13_Witness ==
    /\ C13_RetryError
    /\ The(The(retryResponse).body).error = Some("invalid_signature")
    /\ pc = "failed"

\* C14: once the retry is answered, in every case but a 402 with a parsed
\* non-empty error outside the sentinels (another status, a 402 whose body
\* does not parse, has no error or has a sentinel error) the flow returns
\* the retry response itself and throws nothing.
C14_RetryReturned ==
    (IsSome(retryResponse) /\ pc # "checkRetry"
        /\ ~(C13_RetryError /\ The(The(The(retryResponse).body).error) # "")) =>
        /\ pc = "done"
        /\ returned = retryResponse
        /\ thrown = None

C14_Witness ==
    /\ pc = "done"
    /\ IsSome(retryResponse)
    /\ The(retryResponse).status = 402
    /\ The(retryResponse).body = None
    /\ returned = retryResponse

\* C15: every error that escapes a handler, whichever step raised it, is a
\* PaymentOperationError with a code, a technical message and a user
\* message.
C15_EveryErrorClassified ==
    pc = "failed" => C11_Classified(The(thrown))

\* C16: a first 402 body with error insufficient_funds fails the flow at
\* once, with no wallet operation, no on-chain read and no header, and the
\* error's code is INSUFFICIENT_BALANCE.
C16_InsufficientFundsKind ==
    (IsSome(rawResponse) /\ The(rawResponse).error = Some("insufficient_funds")
        /\ pc # "parseBody") =>
        /\ pc = "failed"
        /\ failedAt = "parseBody"
        /\ walletCalls = <<>>
        /\ chainReads = 0
        /\ paymentHeader = None
        /\ Len(requests) = 1
        /\ The(thrown).code = CodeStr("INSUFFICIENT_BALANCE")

\* the transaction of the SVM builder is at the wallet: signTransaction is
\* the next step or has been called
C19_AtWallet ==
    /\ family = "svm"
    /\ pc = "signTransaction" \/ CallsOf("signTransaction") # {}

\* C19: every transaction handed to signTransaction has exactly three
\* instructions: set-compute-unit-limit first, set-compute-unit-price
\* second, the checked token transfer third, under either token program.
C19_ThreeInstructions ==
    C19_AtWallet =>
        LET instructions == Transaction(header).instructions
        IN /\ Len(instructions) = 3
           /\ instructions[1].programId = COMPUTE_BUDGET_PROGRAM_ID
           /\ instructions[1].kind = "SetComputeUnitLimit"
           /\ instructions[2].programId = COMPUTE_BUDGET_PROGRAM_ID
           /\ instructions[2].kind = "SetComputeUnitPrice"
           /\ instructions[3].kind = "TransferChecked"
           /\ instructions[3].programId \in {TOKEN_PROGRAM_ID, TOKEN_2022_PROGRAM_ID}
           /\ instructions[3].programId = header.programId

C19_Witness ==
    /\ C19_AtWallet
    /\ CallsOf("signTransaction") # {}
    /\ header.programId = TOKEN_2022_PROGRAM_ID
    /\ IsSome(paymentHeader)

\* no instruction of the transaction creates an account
C20_NoAccountCreation ==
    \A i \in 1..Len(header.instructions) :
        header.instructions[i].kind \in
            {"SetComputeUnitLimit", "SetComputeUnitPrice", "TransferChecked"}

\* the builder failed on a missing account with this message and never
\* reached the wallet
C20_FailedWith(message) ==
    /\ pc = "failed"
    /\ C11_Classified(The(thrown))
    /\ The(thrown).message = message
    /\ CallsOf("signTransaction") = {}
    /\ paymentHeader = None
    /\ Len(requests) = 1

C17_Drawn(c) == c.family = "evm" /\ c.header.nonce # ""

\* what call c signs and sends carries the nonce that c drew, and c asks
\* for one signature at most
C17_OwnNonce(c) ==
    LET signs == { i \in 1..Len(c.walletCalls) : c.walletCalls[i].op = "signTypedData" }
    IN /\ IsSome(c.header.authorization)
       /\ The(c.header.authorization).nonce = c.header.nonce
       /\ \A i \in signs : c.walletCalls[i].arg = c.header.nonce
       /\ Cardinality(signs) <= 1
       /\ IsSome(c.paymentHeader) =>
             The(c.paymentHeader).base64.json.payload.authorization.nonce = c.header.nonce

\* C17: each createEvmPaymentHeader call draws its own nonce when it runs
\* and signs and sends that nonce only; two calls, also two runs of
\* handleEvmPayment for the same requirement one after the other or
\* interleaved, have different nonces, authorizations and headers.
C17_FreshNonces ==
    /\ \A c \in Calls : C17_Drawn(c) => C17_OwnNonce(c)
    /\ IsSome(other) =>
          LET c == Self
              d == The(other)
          IN (C17_Drawn(c) /\ C17_Drawn(d)) =>
                /\ c.header.nonce # d.header.nonce
                /\ c.header.authorization # d.header.authorization
                /\ (IsSome(c.paymentHeader) /\ IsSome(d.paymentHeader)) =>
                      c.paymentHeader # d.paymentHeader

\* two EVM runs for the same requirement, signed at the same time by the
\* same wallet address, both paid
C17_Witness ==
    /\ IsSome(other)
    /\ C17_Drawn(Self)
    /\ C17_Drawn(The(other))
    /\ selectedRequirements = The(other).selectedRequirements
    /\ header.now = The(other).header.now
    /\ pc = "done"
    /\ The(other).pc = "done"
    /\ Len(requests) = 2
    /\ Len(The(other).requests) = 2

\* the requirement of call c is the first suitable entry of the list that
\* c's own response offered (the body is kept until the amount check)
C18_OwnSelection(c) ==
    /\ (IsSome(c.initialResponse) /\ IsSome(c.rawResponse)) =>
          The(c.initialResponse).body = c.rawResponse
    /\ (IsSome(c.rawResponse) /\ IsSome(c.selectedRequirements)) =>
          c.selectedRequirements =
              selectRequirements(c.family, AcceptsOf(The(c.rawResponse)))
    /\ IsSome(c.selectedRequirements) => Suitable(c.family, The(c.selectedRequirements))

\* what call c signs and sends is built from c's own requirement, wallet,
\* nonce and blockhash
C18_OwnHeader(c) ==
    /\ (c.family = "evm" /\ IsSome(c.header.authorization)) =>
          c.header.authorization =
              Some(Authorization(c.wallet, The(c.selectedRequirements),
                                 c.header.now, c.header.nonce))
    /\ (c.family = "evm" /\ IsSome(c.paymentHeader)) =>
          \E signature \in Signatures :
              c.paymentHeader = Some(EncodeHeader(EvmHeaderPayload(
                  c.x402Version, The(c.selectedRequirements),
                  The(c.header.authorization), signature)))
    /\ (c.family = "svm" /\ IsSome(c.paymentHeader)) =>
          /\ \E signature \in Signatures :
                c.paymentHeader = Some(EncodeHeader(SvmHeaderPayload(
                    c.x402Version, The(c.selectedRequirements),
                    [base64 |-> [signature |-> signature,
                                 transaction |-> Transaction(c.header)]])))
          /\ c.header.instructions[3].value =
                The(BigInt(The(c.selectedRequirements).maxAmountRequired))
          /\ c.header.userPubkey = The(WalletAddress(c.wallet))
    /\ Len(c.requests) = 2 =>
          c.requests[2] = Request(Endpoint, MethodOf(c.requestInit), c.requestInit.body,
                                  RetryHeaders(c.requestInit, The(c.paymentHeader)))

\* call c ends as its own last response or its own failure says
C18_OwnResult(c) ==
    /\ c.pc = "done" =>
          /\ c.thrown = None
          /\ IsSome(c.returned)
          /\ The(c.returned).seq = Len(c.requests)
          /\ c.returned = (IF Len(c.requests) = 2 THEN c.retryResponse
                                                  ELSE c.initialResponse)
    /\ c.pc = "failed" =>
          /\ IsSome(c.thrown)
          /\ c.returned = None
          /\ c.failedAt # ""
    /\ c.pc \notin {"done", "failed"} => c.returned = None /\ c.thrown = None

\* C18: with two calls of the handlers in flight, interleaved in any way,
\* each call's requirement is selected from its own response, its header
\* is built from its own requirement, nonce or blockhash, its retry carries
\* its own header, its result is its own last response or failure, and two
\* EVM calls never hold the same nonce.
C18_CallsIndependent ==
    /\ \A c \in Calls : C18_OwnSelection(c) /\ C18_OwnHeader(c) /\ C18_OwnResult(c)
    /\ (IsSome(other) /\ C17_Drawn(Self) /\ C17_Drawn(The(other))) =>
          header.nonce # The(other).header.nonce

\* a step of the running call leaves the suspended call as it was
C18_SuspendedUntouched ==
    [][other' = other \/ (IsSome(other) /\ other' = Some(Self))]_vars

\* an EVM call and a Solana call, answered with different offers and
\* interleaved, both paid
C18_Witness ==
    /\ IsSome(other)
    /\ family = "evm"
    /\ The(other).family = "svm"
    /\ pc = "done"
    /\ The(other).pc = "done"
    /\ Len(requests) = 2
    /\ Len(The(other).requests) = 2
    /\ The(selectedRequirements).network = "Base"
    /\ Len(walletCalls) > 1

\* createSvmPaymentHeader has run its validation for the selected requirement
C21_BuilderRan ==
    LET after == {"mintAccount", "getMint", "sourceAta", "destinationAta", "blockhash",
                  "signTransaction", "retry", "checkRetry"}
    IN /\ family = "svm"
       /\ IsSome(selectedRequirements)
       /\ \/ pc \in after
          \/ pc = "done"
          \/ pc = "failed" /\ failedAt \in after \cup {"buildHeader"}

\* the flow failed in the builder on the missing fee payer, with no
\* on-chain read and no signature request
C21_FailedOnFeePayer ==
    /\ pc = "failed"
    /\ failedAt = "buildHeader"
    /\ C11_Classified(The(thrown))
    /\ The(thrown).code = CodeStr("INVALID_PAYMENT_REQUIREMENTS")
    /\ The(thrown).message =
          "Missing facilitator feePayer in payment requirements (extra.feePayer)."
    /\ chainReads = 0
    /\ walletCalls = <<>>
    /\ paymentHeader = None

\* the transaction at the wallet is paid by the account of extra.feePayer
C21_PaidByFeePayer ==
    C19_AtWallet =>
        Transaction(header).payerKey = The(The(selectedRequirements).extra.feePayer)

C22_Built == family = "evm" /\ IsSome(header.authorization)

\* C22 as stated: the authorization has validAfter 0 and validBefore equal
\* to the creation time in seconds plus the requirement's
\* maxTimeoutSeconds, for every requirement.
C22_ValidBeforeIsNowPlusTimeout ==
    C22_Built =>
        /\ The(header.authorization).validAfter = "0"
        /\ The(header.authorization).validBefore =
              NumToString(header.now + The(selectedRequirements).maxTimeoutSeconds, 10)

\* C22, amended: the same for a maxTimeoutSeconds other than 0; with 0 the
\* authorization is valid for 3600 seconds.
C22_ValidBeforeWithDefault ==
    C22_Built =>
        LET timeout == The(selectedRequirements).maxTimeoutSeconds
        IN /\ header.now \in Times
           /\ The(header.authorization).validAfter = "0"
           /\ timeout # 0 =>
                 The(header.authorization).validBefore =
                     NumToString(header.now + timeout, 10)
           /\ timeout = 0 =>
                 The(header.authorization).validBefore =
                     NumToString(header.now + 3600, 10)

C22_Witness ==
    /\ C22_Built
    /\ The(selectedRequirements).maxTimeoutSeconds = 0
    /\ The(header.authorization).validBefore = "1700003600"
    /\ IsSome(paymentHeader)

\* JSON.parse(atob(paymentHeader)): the envelope a header decodes to
C23_Decode(paymentHdr) == paymentHdr.base64.json

C24_Sent == { h[2] : h \in { x \in requests[2].headers : x[1] = "X-PAYMENT" } }

\* the signTypedData calls that resolved
C24_Signed == { i \in CallsOf("signTypedData") : walletCalls[i].error = None }

\* C24: in a successful EVM flow the X-PAYMENT header of the retry decodes
\* to an envelope with the selected requirement's network and scheme, its
\* maxAmountRequired as value, its payTo as to, the wallet address as from,
\* the nonce submitted to signTypedData and the signature it returned.
C24_EnvelopeFromSelection ==
    (family = "evm" /\ pc = "done" /\ Len(requests) = 2) =>
        /\ Cardinality(C24_Sent) = 1
        /\ Cardinality(C24_Signed) = 1
        /\ \A sent \in C24_Sent, i \in C24_Signed :
              LET envelope == C23_Decode(sent)
                  authorization == envelope.payload.authorization
                  req == The(selectedRequirements)
              IN /\ envelope.network = req.network
                 /\ envelope.scheme = req.scheme
                 /\ authorization.value = req.maxAmountRequired
                 /\ authorization.to = The(req.payTo)
                 /\ authorization.from = The(wallet.address)
                 /\ authorization.nonce = walletCalls[i].arg
                 /\ envelope.payload.signature = walletCalls[i].result
                 /\ envelope.payload.signature \in Signatures

C24_Witness ==
    /\ family = "evm"
    /\ pc = "done"
    /\ Len(requests) = 2
    /\ The(returned).status = 200
    /\ The(selectedRequirements).network = "Base"
    /\ \E sent \in C24_Sent :
          C23_Decode(sent).payload.authorization.value = "1000000000000000000"

\* the lookup named fn was called with a name none of its keys matches
C25_Unmapped(fn) ==
    /\ IsSome(evaluation)
    /\ The(evaluation).fn = fn
    /\ ToLowerCase(The(evaluation).input) \notin
          (IF fn = "getDefaultSolanaRpcUrl" THEN SolanaNetworkSchema ELSE DOMAIN chainIdMap)

\* C25: called with a network name that is not a key of its table,
\* getChainIdFromNetwork, getChainId and getDefaultSolanaRpcUrl each fail
\* with an error and return nothing.
C25_UnmappedLookupFails ==
    \A fn \in {"getChainIdFromNetwork", "getChainId", "getDefaultSolanaRpcUrl"} :
        C25_Unmapped(fn) => The(evaluation).outcome = None

\* the two lookups that do throw, for names that no object inherits
C25_ThrowingLookups ==
    \A fn \in {"getChainIdFromNetwork", "getDefaultSolanaRpcUrl"} :
        (C25_Unmapped(fn) /\ ToLowerCase(The(evaluation).input) \notin InheritedKeys) =>
            The(evaluation).outcome = None

\* the condition of rule k of parsePaymentError on a raw error
C26_Rule(k, error) ==
    LET m == ErrorMessageOf(error)
        any(phrases) == \E p \in phrases : Includes(m, p)
    IN CASE k = 1 -> \/ error.code \in {CodeNum(4001), CodeStr("ACTION_REJECTED")}
                     \/ any({"User rejected", "user rejected", "User denied",
                              "user denied", "ethers-user-denied"})
         [] k = 2 -> any({"chainId"}) /\ any({"must match", "does not match"})
         [] k = 3 -> any({"Network mismatch", "Wrong network", "Incorrect network"})
         [] k = 4 -> any({"locked", "Wallet is locked"})
         [] k = 5 -> any({"insufficient"}) /\ any({"balance", "funds"})
         [] k = 6 -> any({"Failed to switch", "switch chain"})
         [] k = 7 -> any({"not connected", "No wallet", "Connect wallet"})
         [] k = 8 -> any({"No suitable", "payment requirements", "Missing payTo",
                          "Missing asset"})
         [] k = 9 -> any({"exceeds maximum"})
         [] k = 10 -> any({"signature", "sign"}) \/ error.code = CodeStr("UNKNOWN_ERROR")

\* the kind each rule returns, in the order of the rules
C26_Kinds ==
    << USER_REJECTED, CHAIN_ID_MISMATCH, NETWORK_MISMATCH, WALLET_LOCKED,
       INSUFFICIENT_BALANCE, NETWORK_SWITCH_FAILED, WALLET_NOT_CONNECTED,
       INVALID_PAYMENT_REQUIREMENTS, AMOUNT_EXCEEDED, SIGNATURE_FAILED >>

\* the rules whose condition a raw error meets
C26_Matching(error) == { k \in 1..10 : C26_Rule(k, error) }

\* parsePaymentError was called
C26_Classified == IsSome(evaluation) /\ The(evaluation).fn = "parsePaymentError"

\* the call returned one kind of the taxonomy with both messages, and
\* Unknown for null, undefined and an input that meets no rule
C26_ReturnedOneKind ==
    /\ The(evaluation).outcome # None
    /\ LET error == The(evaluation).input
           paymentError == The(The(evaluation).outcome)
       IN /\ paymentError.code \in PaymentErrorCode
          /\ paymentError.message # ""
          /\ paymentError.userMessage # ""
          /\ (error = NullError \/ C26_Matching(error) = {}) =>
                 paymentError.code = UNKNOWN_ERROR

\* C26: parsePaymentError is total over its inputs, null and undefined
\* included: every call returns exactly one kind of the closed taxonomy with
\* a technical and a human-facing message, and an input that matches no rule
\* is classified as Unknown.
C26_Total == C26_Classified => C26_ReturnedOneKind

\* the same for the inputs whose message is a string or absent
C26_TotalOnStringMessages ==
    (C26_Classified /\ MessageIsString(The(evaluation).input)) => C26_ReturnedOneKind

\* the smallest element of a non-empty set of rule numbers
C27_Earliest(rules) == CHOOSE k \in rules : \A j \in rules : k <= j

\* C27: parsePaymentError tries its rules in one fixed order (user
\* rejection, chain-id mismatch, network mismatch, wallet locked,
\* insufficient balance, switch failed, not connected, invalid
\* requirements, amount exceeded, signature failure) and returns the kind of
\* the earliest rule that the error's code or message matches.
C27_FirstMatchWins ==
    (C26_Classified /\ The(evaluation).outcome # None
        /\ The(evaluation).input # NullError
        /\ C26_Matching(The(evaluation).input) # {}) =>
        The(The(evaluation).outcome).code =
            C26_Kinds[C27_Earliest(C26_Matching(The(evaluation).input))]

C27_Witness ==
    /\ C26_Classified
    /\ The(evaluation).input = ProviderError(NoCode, "Network mismatch: account locked")
    /\ C26_Matching(The(evaluation).input) = {3, 4}
    /\ The(The(evaluation).outcome).code = NETWORK_MISMATCH

\* the rule that classifies a raw error: 0 for the !error branch, 1..10 for
\* the earliest rule met, 11 for the default
C28_RuleOf(error) ==
    IF error = NullError THEN 0
    ELSE IF C26_Matching(error) = {} THEN 11
    ELSE C27_Earliest(C26_Matching(error))

\* the userMessage literals of the source, by rule; rule 2 has one for a
\* message from which both chain ids could be read and one for the rest
C28_UserMessage(rule, chainIdsRead) ==
    CASE rule = 0 -> "An unknown error occurred. Please try again."
      [] rule = 1 -> "You rejected the signature request. Please try again if you want to proceed."
      [] rule = 2 /\ chainIdsRead ->
            "Your wallet is on the wrong network. Please switch to the correct network and try again."
      [] rule = 2 /\ ~chainIdsRead ->
            "Your wallet is on the wrong network. Please switch to the correct network."
      [] rule = 3 -> "Please switch your wallet to the correct network."
      [] rule = 4 -> "Please unlock your wallet and try again."
      [] rule = 5 -> "You don't have enough balance to complete this payment."
      [] rule = 6 -> "Failed to switch network. Please switch manually in your wallet."
      [] rule = 7 -> "Please connect your wallet first."
      [] rule = 8 -> "Invalid payment configuration. Please contact support."
      [] rule = 9 -> "Payment amount exceeds the maximum allowed."
      [] rule = 10 -> "Failed to sign the transaction. Please try again."
      [] rule = 11 -> "An unexpected error occurred. Please try again or contact support."

\* parsePaymentError was called and returned
C28_Returned == C26_Classified /\ The(evaluation).outcome # None

\* the raw errors that the same rule classifies as the one just classified
C28_SameRule ==
    { e \in RawErrors :
        /\ parsePaymentErrorCall(e) # None
        /\ C28_RuleOf(e) = C28_RuleOf(The(evaluation).input) }

\* C28 as stated: the human-facing message never carries raw error text;
\* any two raw errors classified by the same rule get the identical
\* userMessage, whatever their message text is.
C28_SameRuleSameUserMessage ==
    C28_Returned =>
        \A e \in C28_SameRule :
            The(parsePaymentErrorCall(e)).userMessage =
                The(The(evaluation).outcome).userMessage

\* C28: the human-facing message never carries raw error text; it is the
\* fixed text of the rule that classified the error, where the chain-id
\* mismatch rule has two fixed texts and picks one by whether both chain
\* ids could be read from the raw message.
C28_UserMessageFixedByRule ==
    C28_Returned =>
        LET error == The(evaluation).input
        IN The(The(evaluation).outcome).userMessage =
               C28_UserMessage(C28_RuleOf(error),
                               IsSome(ChainIdMatch(ErrorMessageOf(error))))

C28_Witness ==
    /\ C28_Returned
    /\ The(evaluation).input =
          ProviderError(NoCode, "Provided chainId \"8453\" must match the active chainId \"1\"")
    /\ The(The(evaluation).outcome).userMessage = C28_UserMessage(2, TRUE)
    /\ ProviderError(NoCode, "chainId does not match") \in C28_SameRule

\* the kinds whose rule copies the raw message into the technical message
C29_KeepingKinds ==
    { NETWORK_MISMATCH, NETWORK_SWITCH_FAILED, INVALID_PAYMENT_REQUIREMENTS,
      AMOUNT_EXCEEDED, SIGNATURE_FAILED, UNKNOWN_ERROR }

\* the fixed technical messages of the other kinds; a chain-id mismatch
\* whose chain ids could be read reports those two numbers
C29_FixedMessage(kind, chainIds) ==
    CASE kind = USER_REJECTED -> "User rejected the transaction"
      [] kind = CHAIN_ID_MISMATCH /\ chainIds = None ->
            "Network mismatch (wallet selected network does not match)"
      [] kind = CHAIN_ID_MISMATCH /\ chainIds # None ->
            "Network mismatch (wallet is on different chain): Requested "
                \o The(chainIds)[1] \o ", but wallet is on " \o The(chainIds)[2]
      [] kind = WALLET_LOCKED -> "Wallet is locked"
      [] kind = INSUFFICIENT_BALANCE -> "Insufficient balance"
      [] kind = WALLET_NOT_CONNECTED -> "Wallet not connected"

\* parsePaymentError returned for a raw error that has a message text
C29_ReturnedForMessage == C28_Returned /\ The(evaluation).input.message # ""

\* C29 as stated: for every raw error with a message, the message field
\* that parsePaymentError returns contains that raw message text.
C29_MessageKeepsRawText ==
    C29_ReturnedForMessage =>
        Includes(The(The(evaluation).outcome).message, The(evaluation).input.message)

\* C29: for a raw error with a message, the returned message is that raw
\* message when the kind is network mismatch, switch failed, invalid
\* requirements, amount exceeded, signature failed or unknown; for user
\* rejection, chain-id mismatch, wallet locked, insufficient balance and
\* not connected it is a fixed text of the kind, which for a chain-id
\* mismatch carries the two chain ids read from the raw message.
C29_MessageKeptByKind ==
    C29_ReturnedForMessage =>
        LET raw == The(evaluation).input.message
            paymentError == The(The(evaluation).outcome)
        IN IF paymentError.code \in C29_KeepingKinds
           THEN paymentError.message = raw
           ELSE paymentError.message =
                    C29_FixedMessage(paymentError.code, ChainIdMatch(raw))

C29_Witness ==
    /\ C29_ReturnedForMessage
    /\ The(evaluation).input = ProviderError(CodeNum(0 - 32603), "insufficient funds for gas")
    /\ The(The(evaluation).outcome).code = INSUFFICIENT_BALANCE
    /\ The(The(evaluation).outcome).message = "Insufficient balance"

\* the running call asks the wallet to sign: a step of SignTypedData
C30_SignRequested ==
    /\ pc = "signTypedData"
    /\ other' = other
    /\ Len(walletCalls') = Len(walletCalls) + 1

\* the wallet reported a chain id to the running call
C30_ChainReported == IsSome(currentChainId) /\ TruthyNumber(The(currentChainId))

\* C30: in handleEvmPayment with a wallet that reports its chain id, the
\* wallet's active chain equals the flow's target chain id at the moment
\* signTypedData is requested, also when two flows on the same wallet with
\* different target chains interleave.
C30_SignsOnTargetChain ==
    [][(C30_SignRequested /\ C30_ChainReported) => activeChain = targetChainId]_vars

\* the same while no other call reaches the wallet between the chain check
\* and the signature request: the suspended call has not started
C30_AloneSignsOnTargetChain ==
    [][(C30_SignRequested /\ C30_ChainReported /\ other = Some(MakePaymentCall))
          => activeChain = targetChainId]_vars

\* the caller gave no ceiling, or a ceiling of 0n
C31_NoCeiling == config.maxPaymentAmount \in {None, Some("0")}

\* C31: a ceiling of zero is treated as no ceiling: with maxPaymentAmount
\* absent or 0n the amount check is skipped, whatever amount is required,
\* so the flow never fails at the amount check and goes on towards the
\* signature request.
C31_ZeroCeilingSkipsCheck ==
    C31_NoCeiling =>
        /\ failedAt # "checkAmount"
        /\ IsSome(thrown) => The(thrown).code # CodeStr(AMOUNT_EXCEEDED)

C31_Witness ==
    /\ config.maxPaymentAmount = Some("0")
    /\ IsSome(selectedRequirements)
    /\ The(selectedRequirements).maxAmountRequired = "1000000000000000000"
    /\ \E i \in 1..Len(walletCalls) : walletCalls[i].op = "signTypedData"

\* C32: a requirement that passed selection always resolves: every network
\* the EVM selector accepts has a chain id in the table, every network the
\* SVM selector accepts has a default RPC URL, so neither handler fails at
\* the resolution that follows selection.
C32_SelectedResolves ==
    /\ Len(requests) = 0 =>
           /\ \A n \in EvmNetworkSchema :
                  IsSome(getChainIdFromNetwork(n)) /\ The(getChainIdFromNetwork(n)) > 0
           /\ \A n \in SolanaNetworkSchema : IsSome(getDefaultSolanaRpcUrl(n))
    /\ failedAt \notin {"targetChain", "rpcUrl"}
    /\ (family = "evm" /\ pc \in {"getChainId", "switchChain", "buildHeader"}) =>
           Some(targetChainId) = getChainIdFromNetwork(The(selectedRequirements).network)

C32_Witness ==
    /\ family = "evm"
    /\ pc = "getChainId"
    /\ The(selectedRequirements).network = "Base"
    /\ targetChainId = 8453

\* C33: classification is idempotent: classifying the
\* PaymentOperationError that wrapPaymentError(e) produced yields the same
\* kind as classifying the raw error e.
C33_Idempotent ==
    C28_Returned =>
        parsePaymentError(PaymentOperationError(The(The(evaluation).outcome))).code =
            The(The(evaluation).outcome).code

\* the kinds whose own technical message classifies back to them
C33_StableKinds ==
    { USER_REJECTED, NETWORK_MISMATCH, WALLET_LOCKED, NETWORK_SWITCH_FAILED,
      WALLET_NOT_CONNECTED, INVALID_PAYMENT_REQUIREMENTS, AMOUNT_EXCEEDED,
      SIGNATURE_FAILED }

\* classifying again keeps every kind but chain-id mismatch, insufficient
\* balance and unknown, unless the raw error was classified by its code
\* 'UNKNOWN_ERROR'
C33_IdempotentOnStableKinds ==
    (C28_Returned /\ The(The(evaluation).outcome).code \in C33_StableKinds
        /\ The(evaluation).input.code # CodeStr("UNKNOWN_ERROR")) =>
        parsePaymentError(PaymentOperationError(The(The(evaluation).outcome))).code =
            The(The(evaluation).outcome).code

\* the errors of the failed calls of fn, in order
C40_Failures == SelectSeq(backoff.attempts, LAMBDA a : ~a.ok)

\* C40: retryWithBackoff(fn, maxRetries, baseDelay) calls fn at most
\* maxRetries times, returns the value of the first successful call without
\* calling fn again, throws the error of the last call when all maxRetries
\* calls failed, waits baseDelay * 2^i after failed attempt i when another
\* attempt follows, and does not wait after the last failed attempt.
C40_RetriesWithBackoff ==
    /\ Len(backoff.attempts) <= backoff.maxRetries
    /\ \A k \in 1..Len(backoff.attempts) :
           backoff.attempts[k].ok => k = Len(backoff.attempts)
    /\ backoff.pc = "returned" <=>
           (backoff.attempts # <<>> /\ backoff.attempts[Len(backoff.attempts)].ok)
    /\ backoff.pc = "returned" =>
           backoff.settled = Some(backoff.attempts[Len(backoff.attempts)].value)
    /\ backoff.pc = "thrown" =>
           /\ Len(C40_Failures) = backoff.maxRetries
           /\ backoff.maxRetries > 0 =>
                  backoff.settled = Some(backoff.attempts[backoff.maxRetries].error)
    /\ Len(backoff.sleeps) <= Len(C40_Failures)
    /\ Len(backoff.sleeps) < IF backoff.maxRetries = 0 THEN 1 ELSE backoff.maxRetries
    /\ backoff.pc \in {"loop", "returned", "thrown"} =>
           Len(backoff.sleeps) =
               IF Len(C40_Failures) = backoff.maxRetries /\ backoff.maxRetries > 0
               THEN backoff.maxRetries - 1 ELSE Len(C40_Failures)
    /\ \A k \in 1..Len(backoff.sleeps) :
           backoff.sleeps[k] = backoff.baseDelay * (2 ^ (k - 1))

C40_Witness ==
    /\ backoff.pc = "thrown"
    /\ backoff.maxRetries = 3
    /\ backoff.baseDelay = 250
    /\ backoff.sleeps = <<250, 500>>
    /\ backoff.attempts[2].error = "first error"
    /\ backoff.settled = Some("second error")

\* ------------------------------------------------------------------
\* The wallet store: WalletStore and the wallet utilities it calls
\* ------------------------------------------------------------------

\* the accounts an EVM wallet can report
EvmAccounts == {"0xA11", "0xB22"}

\* the public keys a Solana wallet can report
SolanaKeys == {"SoLkey"}

\* the wallet family an address comes from
FamilyOfAddress(address) == IF address \in EvmAccounts THEN "evm" ELSE "solana"

\* the wallet family connectWallet and getCurrentWallet ask for a network type
FamilyOfNetwork(networkType) == IF networkType = "evm" THEN "evm" ELSE "solana"

\* the addresses the wallet of a network type can report
AddressesOf(networkType) ==
    IF networkType = "evm" THEN EvmAccounts ELSE SolanaKeys

\* the messages a wallet rejects a connection with; the empty message
\* stands for an error without one
ConnectFailures == {"User rejected the request.", ""}

\* the calls of the store that may wait for a wallet at one time
MaxInFlight == 2

markWalletDisconnected(storage, networkType) ==
    [storage EXCEPT !.disconnected = @ \cup {networkType}]

clearWalletDisconnection(storage, networkType) ==
    [storage EXCEPT !.disconnected = @ \ {networkType}]

isWalletManuallyDisconnected(storage, networkType) ==
    networkType \in storage.disconnected

saveConnectedNetworkType(storage, networkType) ==
    [storage EXCEPT !.connectedType = Some(networkType)]

saveWalletAddress(storage, networkType, address) ==
    [storage EXCEPT !.addresses[networkType] = Some(address)]

getCachedWalletAddress(storage, networkType) == storage.addresses[networkType]

\* clearAllWalletAddresses in the place of removeWalletAddress
clearAllWalletAddresses(storage, networkType) ==
    [storage EXCEPT !.addresses = [n \in StoreNetworks |-> None]]

removeWalletAddress(storage, networkType) ==
    [storage EXCEPT !.addresses[networkType] = None]

\* handleDisconnect without markWalletDisconnected
handleDisconnectStorageUnmarked(storage, networkType) ==
    [removeWalletAddress(storage, networkType) EXCEPT !.connectedType = None]

\* WalletStore.handleDisconnect: the storage it leaves
handleDisconnectStorage(storage, networkType) ==
    [markWalletDisconnected(removeWalletAddress(storage, networkType), networkType)
        EXCEPT !.connectedType = None]

\* handleDisconnect that clears the network type and keeps the address
handleDisconnectStateKeepingAddress(state, error) ==
    [state EXCEPT !.networkType = None, !.error = error]

\* WalletStore.handleDisconnect: the state it sets
handleDisconnectState(state, error) ==
    [state EXCEPT !.address = None, !.networkType = None, !.error = error]

\* the prologue of connect and of switchNetwork: the address of the network
\* that is left is saved
SaveCurrent(state, storage) ==
    IF IsSome(state.address) /\ IsSome(state.networkType)
    THEN saveWalletAddress(storage, The(state.networkType), The(state.address))
    ELSE storage

\* the prologue of connect saves only when the network changes
SaveCurrentOnChange(state, storage, type) ==
    IF state.networkType # Some(type) THEN SaveCurrent(state, storage) ELSE storage

\* a call without its number
Unnumbered(c) ==
    [type |-> c.type, op |-> c.op, cached |-> c.cached,
     waitsFor |-> c.waitsFor, viaSwitch |-> c.viaSwitch, stale |-> c.stale]

\* a call that waits for a wallet: the method of the store that was called,
\* the network type, the wallet request it waits for, whether switchNetwork
\* is among its callers, the cached address getCurrentWallet read, and
\* whether disconnect() returned since it started; calls that agree in all
\* of these are numbered
StoreCall(op, type, waitsFor, viaSwitch, cached) ==
    LET call == [type |-> type, op |-> op, cached |-> cached,
                 waitsFor |-> waitsFor, viaSwitch |-> viaSwitch, stale |-> FALSE]
    IN  [id |-> 1 + Cardinality({c \in storeCalls : Unnumbered(c) = call})] @@ call

\* of the calls that agree in everything but their number, the last settles
Settles(c) ==
    \A d \in storeCalls : Unnumbered(d) = Unnumbered(c) => d.id <= c.id

\* what a method of the store leaves when it returns or starts to wait: the
\* state, the storage, the call that waits (if one does) and the network
\* types joined
Began(state, storage, waits, joined) ==
    [storage |-> storage, state |-> state, waits |-> waits, joined |-> joined]

\* WalletStore.connect up to its await of connectWallet
BeginConnect(op, type, viaSwitch, state, storage) ==
    Began([state EXCEPT !.isConnecting = TRUE, !.error = None],
          SaveCurrentOnChange(state, storage, type),
          {StoreCall(op, type, "connectWallet", viaSwitch, None)},
          {})

\* WalletStore.switchNetwork up to its first await of a wallet; `current` is
\* what a Solana wallet reports to getCurrentWallet, which asks it without
\* waiting
BeginSwitchNetwork(op, type, current, state, storage) ==
    LET saved == SaveCurrent(state, storage)
        connecting == [state EXCEPT !.isConnecting = TRUE, !.error = None]
        cached == getCachedWalletAddress(saved, type)
        verified == clearWalletDisconnection(
                        saveConnectedNetworkType(saved, type), type)
        address == IF IsSome(current) THEN current ELSE cached
    IN  IF IsSome(cached)
        THEN IF FamilyOfNetwork(type) = "evm"
             THEN Began(connecting, verified,
                        {StoreCall(op, type, "getCurrentWallet", TRUE, cached)},
                        {})
             ELSE Began([connecting EXCEPT !.address = address,
                                           !.networkType = Some(type),
                                           !.isConnecting = FALSE],
                        IF IsSome(current) /\ current # cached
                        THEN saveWalletAddress(verified, type, The(current))
                        ELSE verified,
                        {},
                        {type})
        ELSE BeginConnect(op, type, TRUE,
                          [connecting EXCEPT !.address = None,
                                             !.networkType = Some(type),
                                             !.isConnecting = TRUE],
                          saved)

\* WalletStore.ensureNetwork up to its first await of a wallet
BeginEnsureNetwork(type, current, state, storage) ==
    IF isWalletManuallyDisconnected(storage, type)
    THEN Began(state, storage, {}, {})
    ELSE IF state.networkType = Some(type) /\ IsSome(state.address)
    THEN Began(state, storage, {}, {})
    ELSE IF state.networkType # Some(type)
    THEN BeginSwitchNetwork("ensureNetwork", type, current, state, storage)
    ELSE BeginConnect("ensureNetwork", type, FALSE, state, storage)

\* a method of the store ran up to its return or its first await
Begin(began) ==
    /\ walletState' = began.state
    /\ localStorage' = began.storage
    /\ storeCalls' = storeCalls \cup began.waits
    /\ left' = left \ began.joined
    /\ UNCHANGED <<flow, evaluation, backoff>>

\* what a Solana wallet reports to getCurrentWallet
SolanaReports == {None} \cup {Some(k) : k \in SolanaKeys}

\* what an EVM wallet answers eth_accounts with; no account also stands for
\* a request that failed
EvmReports == {None} \cup {Some(a) : a \in EvmAccounts}

\* WalletStore.connect(type)
Connect ==
    /\ Cardinality(storeCalls) < MaxInFlight
    /\ \E type \in StoreNetworks :
          Begin(BeginConnect("connect", type, FALSE, walletState, localStorage))

\* WalletStore.switchNetwork(type)
SwitchNetwork ==
    /\ Cardinality(storeCalls) < MaxInFlight
    /\ \E type \in StoreNetworks, current \in SolanaReports :
          Begin(BeginSwitchNetwork("switchNetwork", type, current,
                                   walletState, localStorage))

\* WalletStore.ensureNetwork(expectedNetwork)
EnsureNetwork ==
    /\ Cardinality(storeCalls) < MaxInFlight
    /\ \E type \in StoreNetworks, current \in SolanaReports :
          Begin(BeginEnsureNetwork(type, current, walletState, localStorage))

\* connectWallet got an address from the wallet; connect sets it
ConnectWalletReturns ==
    \E c \in storeCalls :
       /\ c.waitsFor = "connectWallet"
       /\ Settles(c)
       /\ \E address \in AddressesOf(c.type) :
             /\ localStorage' =
                   saveWalletAddress(
                       saveConnectedNetworkType(
                           clearWalletDisconnection(localStorage, c.type), c.type),
                       c.type, address)
             /\ walletState' = [walletState EXCEPT !.address = Some(address),
                                                   !.networkType = Some(c.type),
                                                   !.isConnecting = FALSE]
       /\ storeCalls' = storeCalls \ {c}
       /\ left' = left \ {c.type}
       /\ UNCHANGED <<flow, evaluation, backoff>>

\* the message connect reports for an error
ConnectError(message) ==
    IF message = "" THEN "Failed to connect wallet" ELSE message

\* the message switchNetwork reports for an error
SwitchNetworkError(message) ==
    IF message = "" THEN "Failed to switch network" ELSE message

\* connectWallet threw; connect reports the error and rethrows it, and so
\* does switchNetwork when it called connect
ConnectWalletThrows ==
    \E c \in storeCalls :
       /\ c.waitsFor = "connectWallet"
       /\ Settles(c)
       /\ \E message \in ConnectFailures :
             walletState' =
                [walletState EXCEPT
                    !.error = Some(IF c.viaSwitch THEN SwitchNetworkError(message)
                                                  ELSE ConnectError(message)),
                    !.isConnecting = FALSE]
       /\ storeCalls' = storeCalls \ {c}
       /\ UNCHANGED <<localStorage, left, flow, evaluation, backoff>>

\* getCurrentWallet got the answer of the EVM wallet; switchNetwork sets the
\* address it returns
GetCurrentWalletReturns ==
    \E c \in storeCalls :
       /\ c.waitsFor = "getCurrentWallet"
       /\ Settles(c)
       /\ \E current \in EvmReports :
             /\ localStorage' =
                   IF IsSome(current) /\ current # c.cached
                   THEN saveWalletAddress(localStorage, c.type, The(current))
                   ELSE localStorage
             /\ walletState' =
                   [walletState EXCEPT
                       !.address = IF IsSome(current) THEN current ELSE c.cached,
                       !.networkType = Some(c.type),
                       !.isConnecting = FALSE]
       /\ storeCalls' = storeCalls \ {c}
       /\ left' = left \ {c.type}
       /\ UNCHANGED <<flow, evaluation, backoff>>

\* a call that waits, once disconnect() returned; it is numbered after the
\* calls it now agrees with
Stale(c) ==
    IF c.stale
    THEN c
    ELSE LET alike == [Unnumbered(c) EXCEPT !.stale = TRUE]
         IN  [c EXCEPT !.stale = TRUE,
                       !.id = @ + Cardinality({d \in storeCalls : Unnumbered(d) = alike})]

\* WalletStore.disconnect()
Disconnect ==
    /\ IF IsSome(walletState.networkType)
       THEN /\ localStorage' =
                  handleDisconnectStorage(localStorage, The(walletState.networkType))
            /\ walletState' = handleDisconnectState(walletState, None)
            /\ left' = left \cup walletState.networkType
       ELSE /\ walletState' = [walletState EXCEPT !.address = None,
                                                  !.networkType = None,
                                                  !.error = None]
            /\ UNCHANGED <<localStorage, left>>
    /\ storeCalls' = {Stale(c) : c \in storeCalls}
    /\ UNCHANGED <<flow, evaluation, backoff>>

\* the listener init() gives onAccountsChanged
AccountsChanged ==
    /\ \E accounts \in {<<>>} \cup {<<a>> : a \in EvmAccounts} :
          IF walletState.networkType = Some("evm")
          THEN IF Len(accounts) = 0
               THEN /\ walletState' = [walletState EXCEPT !.address = None]
                    /\ UNCHANGED localStorage
               ELSE IF ~isWalletManuallyDisconnected(localStorage, "evm")
               THEN /\ walletState' = [walletState EXCEPT !.address = Some(accounts[1])]
                    /\ localStorage' = saveWalletAddress(localStorage, "evm", accounts[1])
               ELSE UNCHANGED <<walletState, localStorage>>
          ELSE UNCHANGED <<walletState, localStorage>>
    /\ UNCHANGED <<storeCalls, left, flow, evaluation, backoff>>

\* the message the store reports when the chain of the wallet changed
ChainChangedMessage == "Chain changed. Please reconnect your wallet."

\* a chainChanged listener that does not look at the active network
ChainChangedOnAnyNetwork ==
    /\ localStorage' = handleDisconnectStorage(localStorage, "evm")
    /\ walletState' = handleDisconnectState(walletState, Some(ChainChangedMessage))
    /\ UNCHANGED <<storeCalls, left, flow, evaluation, backoff>>

\* the listener init() gives onChainChanged
ChainChanged ==
    /\ IF walletState.networkType = Some("evm")
       THEN /\ localStorage' = handleDisconnectStorage(localStorage, "evm")
            /\ walletState' = handleDisconnectState(walletState, Some(ChainChangedMessage))
       ELSE UNCHANGED <<walletState, localStorage>>
    /\ UNCHANGED <<storeCalls, left, flow, evaluation, backoff>>

\* the listener init() gives onWalletDisconnect
WalletDisconnect ==
    /\ IF walletState.networkType \in {Some("solana"), Some("svm")}
       THEN /\ localStorage' =
                  handleDisconnectStorage(localStorage, The(walletState.networkType))
            /\ walletState' = handleDisconnectState(walletState, None)
       ELSE UNCHANGED <<walletState, localStorage>>
    /\ UNCHANGED <<storeCalls, left, flow, evaluation, backoff>>

\* disconnectWallet(networkType) of the wallet utilities
DisconnectWallet ==
    /\ \E type \in StoreNetworks :
          localStorage' = removeWalletAddress(localStorage, type)
    /\ UNCHANGED <<walletState, storeCalls, left, flow, evaluation, backoff>>

\* WalletStore.clearError()
ClearError ==
    /\ walletState' = [walletState EXCEPT !.error = None]
    /\ UNCHANGED <<localStorage, storeCalls, left, flow, evaluation, backoff>>

InitWalletStore ==
    /\ evaluation = None
    /\ IdleFlow
    /\ IdleApart

NextWalletStore ==
    \/ Connect
    \/ SwitchNetwork
    \/ EnsureNetwork
    \/ ConnectWalletReturns
    \/ ConnectWalletThrows
    \/ GetCurrentWalletReturns
    \/ Disconnect
    \/ AccountsChanged
    \/ ChainChanged
    \/ WalletDisconnect
    \/ DisconnectWallet
    \/ ClearError

SpecWalletStore == InitWalletStore /\ [][NextWalletStore]_vars

\* the store and its storage keep their shapes
StoreTypeOK ==
    /\ walletState.isConnecting \in BOOLEAN
    /\ localStorage.disconnected \subseteq StoreNetworks
    /\ Cardinality(storeCalls) <= MaxInFlight
    /\ \A c \in storeCalls :
          c.id = Cardinality({d \in storeCalls : Unnumbered(d) = Unnumbered(c)
                                                  /\ d.id <= c.id})


\* ------------------------------------------------------------------
\* Properties of the wallet store
\* ------------------------------------------------------------------

\* ensureNetwork(n) returns without a call that waits and without a change
\* of the state or of the storage, whatever the wallet would report
C34_EnsureNetworkReturns(n) ==
    \A current \in SolanaReports :
       BeginEnsureNetwork(n, current, walletState, localStorage)
          = Began(walletState, localStorage, {}, {})

\* C34: after disconnect() while network N was active, and for as long as no
\* connect(N) or switchNetwork(N) has succeeded since, N is marked as manually
\* disconnected and ensureNetwork(N) returns without connecting and without
\* changing the state of the store
C34_DisconnectedStaysOut ==
    \A n \in left :
       /\ isWalletManuallyDisconnected(localStorage, n)
       /\ C34_EnsureNetworkReturns(n)

\* a network was left by disconnect() and another one was joined since
C34_Witness ==
    \E n \in left :
       /\ IsSome(walletState.address)
       /\ walletState.networkType \notin {None, Some(n)}


\* C35: once disconnect() has returned, the address of the store stays null
\* until a connect, switchNetwork or ensureNetwork call started after that
\* disconnect completes successfully; a call that waited for the wallet
\* when disconnect() was called does not put an address back when it settles
C35_StaleCallSetsNoAddress ==
    [][\A c \in storeCalls :
          /\ c.stale
          /\ storeCalls' = storeCalls \ {c}
          /\ walletState.address = None
          => walletState'.address = None]_vars

\* C36: in every reachable state of the store a non-null address comes with
\* a non-null networkType, and the address is of the wallet family of that
\* networkType: an EVM account for EVM, a Solana public key for SOLANA and SVM
C36_AddressOfNetwork ==
    IsSome(walletState.address) =>
       /\ IsSome(walletState.networkType)
       /\ FamilyOfAddress(The(walletState.address))
             = FamilyOfNetwork(The(walletState.networkType))
       /\ The(walletState.address) \in AddressesOf(The(walletState.networkType))

\* the store holds a Solana key for SVM after it held an EVM account, which
\* is still cached, while a later call waits for a wallet
C36_Witness ==
    /\ IsSome(walletState.address)
    /\ walletState.networkType = Some("svm")
    /\ IsSome(getCachedWalletAddress(localStorage, "evm"))
    /\ storeCalls # {}


\* C37: isConnecting is true while at least one connect or switchNetwork
\* call waits for a wallet, and false once every such call has settled,
\* also when several calls overlap
C37_ConnectingWhileInFlight ==
    walletState.isConnecting = (storeCalls # {})

\* isConnecting is false once every call has settled
C37_IdleWhenSettled ==
    storeCalls = {} => ~walletState.isConnecting


\* C38: a chainChanged event that arrives while the active network is EVM
\* clears address and networkType, sets the error to the chain-changed
\* message, removes the cached EVM address and marks EVM as manually
\* disconnected; with another active network, or none, it leaves the state
\* of the store and the caches unchanged
C38_ChainChangedDisconnectsEvm ==
    [][ChainChanged =>
          IF walletState.networkType = Some("evm")
          THEN /\ walletState'.address = None
               /\ walletState'.networkType = None
               /\ walletState'.error = Some(ChainChangedMessage)
               /\ getCachedWalletAddress(localStorage', "evm") = None
               /\ isWalletManuallyDisconnected(localStorage', "evm")
          ELSE /\ walletState' = walletState
               /\ localStorage' = localStorage]_vars

\* the chain changed while EVM was active with an address and a cached
\* address: the store reports it, and a Solana address is still cached
C38_Witness ==
    /\ walletState.error = Some(ChainChangedMessage)
    /\ walletState.address = None
    /\ walletState.networkType = None
    /\ isWalletManuallyDisconnected(localStorage, "evm")
    /\ IsSome(getCachedWalletAddress(localStorage, "solana"))


\* the step leaves the cached address and the disconnect flag of every
\* network of `others` as they are
C39_Keeps(others) ==
    \A m \in others :
       /\ getCachedWalletAddress(localStorage', m) = getCachedWalletAddress(localStorage, m)
       /\ isWalletManuallyDisconnected(localStorage', m)
             = isWalletManuallyDisconnected(localStorage, m)

\* the networks other than the active one; all of them when none is active
C39_NotActive == {m \in StoreNetworks : walletState.networkType # Some(m)}

\* disconnect(), a chainChanged event, a wallet-disconnect event and
\* disconnectWallet(n) keep the cache and the flag of every other network
C39_LosingKeepsOthers ==
    /\ Disconnect => C39_Keeps(C39_NotActive)
    /\ ChainChanged => C39_Keeps(StoreNetworks \ {"evm"})
    /\ WalletDisconnect => C39_Keeps(C39_NotActive)
    /\ \A n \in StoreNetworks :
          localStorage' = removeWalletAddress(localStorage, n) /\ DisconnectWallet
             => C39_Keeps(StoreNetworks \ {n})

\* what a call of connect, switchNetwork or ensureNetwork for network n
\* leaves when it returns or starts to wait
C39_Began(n) ==
    {BeginConnect("connect", n, FALSE, walletState, localStorage)}
       \cup {BeginSwitchNetwork("switchNetwork", n, current, walletState, localStorage) :
                current \in SolanaReports}
       \cup {BeginEnsureNetwork(n, current, walletState, localStorage) :
                current \in SolanaReports}

\* the storage `after` has the cached address and the flag of network m as
\* they are now
C39_Kept(after, m) ==
    /\ getCachedWalletAddress(after, m) = getCachedWalletAddress(localStorage, m)
    /\ isWalletManuallyDisconnected(after, m)
          = isWalletManuallyDisconnected(localStorage, m)

\* a call for network n keeps, up to its first await, the cache and the flag
\* of every other network
C39_BeginKeepsOthers ==
    \A n \in StoreNetworks : \A began \in C39_Began(n) :
       \A m \in StoreNetworks \ {n} : C39_Kept(began.storage, m)

\* a call for network n keeps, up to its first await, the cache and the flag
\* of every network but n and the active one; of the active network it keeps
\* the flag, and its cached address is kept or becomes the address of the
\* store
C39_BeginKeepsThird ==
    \A n \in StoreNetworks : \A began \in C39_Began(n) :
       \A m \in StoreNetworks \ {n} :
          \/ C39_Kept(began.storage, m)
          \/ /\ walletState.networkType = Some(m)
             /\ IsSome(walletState.address)
             /\ getCachedWalletAddress(began.storage, m) = walletState.address
             /\ isWalletManuallyDisconnected(began.storage, m)
                   = isWalletManuallyDisconnected(localStorage, m)

\* the step that settles a call for network n keeps the cache and the flag
\* of every other network
C39_SettlingKeepsOthers ==
    \A c \in storeCalls :
       storeCalls' = storeCalls \ {c} => C39_Keeps(StoreNetworks \ {c.type})

C39_LosingTouchesOneNetwork ==
    [][localStorage' # localStorage => C39_LosingKeepsOthers]_vars


====
